---- MODULE Spec2Model ----
(***************************************************************************)
(* A model of the neuro training engine: the layers (Dense, Conv2D,        *)
(* MaxPool2D, Dropout, Flatten), the batch iterator, the tabular data set  *)
(* and the Network's add/fit loop.                                         *)
(*                                                                         *)
(* Tensors are modelled by their dimensions (Dim4: height, width, channel, *)
(* batch) and by the provenance of their values (which mini-batch and      *)
(* which operation produced them), not by floating-point contents.         *)
(***************************************************************************)
EXTENDS Integers, Sequences, FiniteSets, TLC

(***************************************************************************)
(* Bounds of the model.                                                    *)
(***************************************************************************)
\* Longest layer sequence built with Network.add.
MaxLayers == 2
\* Largest number of samples of a data set handed to fit.
MaxSamples == 2
\* Largest number of epochs of a fit call.
MaxEpochs == 2
\* Largest number of samples given to a stand-alone BatchIterator.
MaxIterSamples == 5
\* Largest spatial size of a Conv2D input.
MaxConvIn == 5
\* Largest kernel height/width of a Conv2D.
MaxKernel == 3
\* Largest stride of a Conv2D.
MaxStride == 3
\* The width in bits the model gives to u64 (TLC's integers have 32 bits); every
\* size of the model is far below 2^WordBits, so only the wrap-around of a
\* difference below zero, or of the successor of the largest value, is reached.
WordBits == 8
\* Most forward_train and backward calls made on a single layer.
MaxCalls == 3
\* Largest value of a pixel of a pooled image (the smallest is 0).
MaxPixel == 1

(***************************************************************************)
(* Options and tensors.                                                    *)
(***************************************************************************)
\* Option<T>: None is the empty sequence, Some(x) a one-element sequence.
None == <<>>
Some(x) == <<x>>
IsSome(o) == Len(o) = 1
Get(o) == o[1]

Max2(a, b) == IF a >= b THEN a ELSE b
Min2(a, b) == IF a <= b THEN a ELSE b
\* ceil(a / b) for a >= 0, b >= 1, as (a as f64 / b as f64).ceil() computes it
\* on the small values of this model.
CeilDiv(a, b) == (a + b - 1) \div b

\* Tensor::new_empty_tensor(): a tensor with no element.
EmptyDims == <<0, 0, 0, 0>>
Elements(d) == d[1] * d[2] * d[3] * d[4]

\* A tensor: its dimensions, the data its values derive from (src: the number
\* of the mini-batch, counted from 1 over the whole fit call; 0 for values
\* that derive from no data, -1 for the validation split) and the operation
\* that produced it.
Tensor(dims, src, by) == [dims |-> dims, src |-> src, by |-> by]
NoData == 0
ValidationData == -1
EmptyTensor == Tensor(EmptyDims, NoData, <<"empty", 0>>)

\* The result of a call that may panic: ok = FALSE is the panic.
Panic(why) == [ok |-> FALSE, why |-> why]

(***************************************************************************)
(* The numeric backend (arrayfire) as far as dimensions go.                *)
(***************************************************************************)
\* matmul(lhs, rhs, lhs_trans, rhs_trans) is defined when the inner dimensions
\* agree and the batch dimensions agree or one of them is 1.
MatDims(d, trans) == IF trans THEN <<d[2], d[1], d[3], d[4]>> ELSE d
BatchAxisOk(a, b) == a = b \/ a = 1 \/ b = 1
MatmulOk(l, lt, r, rt) ==
    LET a == MatDims(l, lt)
        b == MatDims(r, rt)
    IN  /\ Elements(l) > 0 /\ Elements(r) > 0
        /\ a[2] = b[1]
        /\ BatchAxisOk(a[3], b[3]) /\ BatchAxisOk(a[4], b[4])
MatmulDims(l, lt, r, rt) ==
    LET a == MatDims(l, lt)
        b == MatDims(r, rt)
    IN  <<a[1], b[2], Max2(a[3], b[3]), Max2(a[4], b[4])>>
\* add/mul(lhs, rhs, batch = true): each axis agrees or is 1 on one side.
BroadcastOk(l, r) ==
    /\ Elements(l) > 0 /\ Elements(r) > 0
    /\ \A i \in 1..4 : BatchAxisOk(l[i], r[i])
BroadcastDims(l, r) == [i \in 1..4 |-> Max2(l[i], r[i])]

(***************************************************************************)
(* Floating-point values: a finite number, an infinity with its sign, or   *)
(* not-a-number.  The finite values of the model are integers.             *)
(***************************************************************************)
Fin(n) == [k |-> "fin", v |-> n]
Inf(sign) == [k |-> "inf", v |-> sign]
NaN == [k |-> "nan", v |-> 0]
SignOf(a) == IF a.v > 0 THEN 1 ELSE IF a.v < 0 THEN 0 - 1 ELSE 0
\* a * b: 0 * inf is NaN
FMul(a, b) ==
    IF a.k = "nan" \/ b.k = "nan" THEN NaN
    ELSE IF a.k = "inf" \/ b.k = "inf"
         THEN IF SignOf(a) * SignOf(b) = 0 THEN NaN ELSE Inf(SignOf(a) * SignOf(b))
         ELSE Fin(a.v * b.v)
\* a / b for a positive finite a: a / 0 is +inf.  The divisions of the model
\* leave no remainder.
FDiv(a, b) ==
    IF b.v = 0 THEN Inf(1) ELSE Fin(a.v \div b.v)

(***************************************************************************)
(* Layers.  One record type holds the fields of every layer struct; a      *)
(* field a variant does not have keeps its blank value.                    *)
(***************************************************************************)
(* Initializers (src/src/initializers.rs) and activations.  An initializer *)
(* is its variant name with the values the variant carries; it is stored   *)
(* as a name and an array of values.  An activation is stored as a number. *)
(***************************************************************************)
Initializer(name, values) == [name |-> name, values |-> values]
InitializerNames ==
    {"Constant", "GlorotNormal", "GlorotUniform", "HeNormal", "HeUniform", "LecunNormal",
     "LecunUniform", "Normal", "NormalScaled", "Ones", "Uniform", "UniformBounded", "Zeros"}
\* The number of values a variant carries.
InitializerArity(name) ==
    CASE name = "Constant" -> 1
      [] name \in {"NormalScaled", "UniformBounded"} -> 2
      [] OTHER -> 0
\* Initializer::save: the variant's name and its values.
InitializerSave(init) == [name |-> init.name, values |-> init.values]
\* A reading that keeps the name and drops the values.
InitializerFromNameOnly(h5_init) ==
    IF h5_init.name \in InitializerNames
    THEN [ok |-> TRUE, init |-> Initializer(h5_init.name, <<>>)]
    ELSE [ok |-> FALSE, init |-> Initializer("", <<>>)]
\* From<&H5Initializer>: the variant of that name, with values[0] and
\* values[1] where the variant carries them; panics on any other name.
InitializerFrom(h5_init) ==
    IF h5_init.name \in InitializerNames
    THEN [ok |-> TRUE,
          init |-> Initializer(h5_init.name,
                               SubSeq(h5_init.values, 1, InitializerArity(h5_init.name)))]
    ELSE [ok |-> FALSE, init |-> Initializer("", <<>>)]

Activations == <<"LeakyReLU", "Linear", "ReLU", "Sigmoid", "Softmax", "Tanh">>
\* The number an activation is written as, and the activation of a number.
ActivationToU8(a) == (CHOOSE i \in DOMAIN Activations : Activations[i] = a) - 1
ActivationFromU8(n) ==
    IF n + 1 \in DOMAIN Activations
    THEN [ok |-> TRUE, activation |-> Activations[n + 1]]
    ELSE [ok |-> FALSE, activation |-> ""]

\* H5Tensor::from(&Tensor) and Tensor::from(&H5Tensor): the dimensions and
\* the values.
H5TensorFrom(t) == [dims |-> t.dims, values |-> <<t.src, t.by>>]
TensorFromH5(h) == [dims |-> h.dims, src |-> h.values[1], by |-> h.values[2]]

(***************************************************************************)
UnresolvedDim == <<0, 0, 0, 0>>
\* Array::new(&[0], Dim4::new(&[1, 1, 1, 1])): the one-element index array a
\* MaxPool2D is constructed with.
PlaceholderIndices == Tensor(<<1, 1, 1, 1>>, NoData, <<"placeholder", 0>>)

BlankLayer ==
    [kind |-> "Blank", units |-> 0,
     kernel_size |-> <<0, 0>>, pool_size |-> <<0, 0>>, stride |-> <<0, 0>>,
     padding |-> "Valid", padding_size |-> <<0, 0, 0, 0>>, num_filters |-> 0,
     drop_rate |-> 0,
     input_shape |-> UnresolvedDim, output_shape |-> UnresolvedDim,
     weights |-> EmptyTensor, biases |-> EmptyTensor,
     dweights |-> EmptyTensor, dbiases |-> EmptyTensor,
     linear_activation |-> None, previous_input |-> None,
     previous_activation |-> None, reshaped_input |-> EmptyTensor,
     row_indices |-> EmptyTensor, col_indices |-> EmptyTensor,
     grad |-> EmptyTensor,
     activation |-> "Linear",
     weights_initializer |-> Initializer("Zeros", <<>>),
     biases_initializer |-> Initializer("Zeros", <<>>),
     regularizer |-> None, scaling_factor |-> Fin(0),
     n_init |-> 0, trained |-> FALSE, loaded |-> FALSE]

\* What a layer call returns: the layer after the call, the tensor returned,
\* and whether the call panicked.
Done(l, out) == [ok |-> TRUE, why |-> "", layer |-> l, out |-> out]
Abort(l, why) == [ok |-> FALSE, why |-> why, layer |-> l, out |-> EmptyTensor]

(***************************************************************************)
(* Dense (src/src/layers/dense.rs).                                        *)
(***************************************************************************)
\* with_param: the layer with the given activation and initializers, no
\* parameters yet.
DenseWithParam(units, activation, weights_initializer, biases_initializer) ==
    [BlankLayer EXCEPT !.kind = "Dense", !.units = units,
                       !.activation = activation,
                       !.weights_initializer = weights_initializer,
                       !.biases_initializer = biases_initializer,
                       !.output_shape = <<units, 1, 1, 1>>]
\* new: HeNormal weights and Zeros biases.
DenseNew(units, activation) ==
    DenseWithParam(units, activation, Initializer("HeNormal", <<>>),
                   Initializer("Zeros", <<>>))

\* A Dense initialisation that forgets the input shape it was given.
DenseInitializeParametersDropShape(l, input_shape) ==
    LET fan_in == input_shape[1] * input_shape[2] * input_shape[3]
    IN  [l EXCEPT !.weights = Tensor(<<l.units, fan_in, 1, 1>>, NoData, <<"init", 0>>),
                  !.biases = Tensor(<<l.units, 1, 1, 1>>, NoData, <<"init", 0>>),
                  !.n_init = l.n_init + 1]
\* initialize_parameters: accepts every input shape; the weights are
\* [fan_out, fan_in] with fan_in = h * w * c.  output_shape is not touched.
DenseInitializeParameters(l, input_shape) ==
    LET fan_in == input_shape[1] * input_shape[2] * input_shape[3]
    IN  [l EXCEPT !.weights = Tensor(<<l.units, fan_in, 1, 1>>, NoData, <<"init", 0>>),
                  !.biases = Tensor(<<l.units, 1, 1, 1>>, NoData, <<"init", 0>>),
                  !.input_shape = input_shape,
                  !.n_init = l.n_init + 1]

\* linear_activation = add(matmul(weights, input), biases, true)
DenseLinearOk(l, x) ==
    /\ MatmulOk(l.weights.dims, FALSE, x.dims, FALSE)
    /\ BroadcastOk(MatmulDims(l.weights.dims, FALSE, x.dims, FALSE), l.biases.dims)
DenseLinear(l, x) ==
    Tensor(BroadcastDims(MatmulDims(l.weights.dims, FALSE, x.dims, FALSE), l.biases.dims),
           x.src, <<"linear", 0>>)

\* activation.eval(&linear_activation): the output is the activation applied
\* to the linear activation.
ActivationEval(activation, z) == Tensor(z.dims, z.src, <<activation, 0>>)

\* A forward that returns the linear activation without applying the
\* activation.
DenseComputeActivationNoEval(l, x) ==
    IF ~DenseLinearOk(l, x) THEN Abort(l, "matmul")
    ELSE Done(l, DenseLinear(l, x))
\* A forward that saves the input and the linear activation, as
\* compute_activation_mut does.
DenseComputeActivationCaching(l, x) ==
    IF ~DenseLinearOk(l, x) THEN Abort(l, "matmul")
    ELSE Done([l EXCEPT !.previous_input = Some(x),
                        !.linear_activation = Some(DenseLinear(l, x))],
              ActivationEval(l.activation, DenseLinear(l, x)))
\* compute_activation(&self): the stateless forward.
DenseComputeActivation(l, x) ==
    IF ~DenseLinearOk(l, x) THEN Abort(l, "matmul")
    ELSE Done(l, ActivationEval(l.activation, DenseLinear(l, x)))

\* A forward_train that keeps the first cache instead of replacing it.
DenseComputeActivationMutKeepFirst(l, x) ==
    IF ~DenseLinearOk(l, x) THEN Abort(l, "matmul")
    ELSE Done([l EXCEPT !.previous_input = IF IsSome(@) THEN @ ELSE Some(x),
                        !.linear_activation =
                            IF IsSome(@) THEN @ ELSE Some(DenseLinear(l, x)),
                        !.trained = TRUE],
              ActivationEval(l.activation, DenseLinear(l, x)))
\* compute_activation_mut: the forward that saves the input and the linear
\* activation, replacing whatever was saved before.
DenseComputeActivationMut(l, x) ==
    IF ~DenseLinearOk(l, x) THEN Abort(l, "matmul")
    ELSE Done([l EXCEPT !.previous_input = Some(x),
                        !.linear_activation = Some(DenseLinear(l, x)),
                        !.trained = TRUE],
              ActivationEval(l.activation, DenseLinear(l, x)))

\* A backward that leaves the regularizer's gradient out of dweights.
DWeightsByMeanOnly(regularizer) == <<"dweights", 0>>
\* What dweights is made of: the batch mean alone, or the batch mean plus
\* regularizer.grad(weights) when the layer has a regularizer.
DWeightsBy(regularizer) ==
    IF ~IsSome(regularizer) THEN <<"dweights", 0>>
    ELSE IF Get(regularizer).kind = "L1" THEN <<"dweights+L1.grad", Get(regularizer).lambda>>
    ELSE <<"dweights+L2.grad", Get(regularizer).lambda>>

\* compute_dactivation_mut: panics when no forward has saved its state;
\* otherwise stores dweights and dbiases and returns the input gradient.
\* The provenance of dweights names the gradient and the two saved tensors
\* it was computed from.
DenseComputeDactivationMut(l, g) ==
    IF ~IsSome(l.linear_activation)
    THEN Abort(l, "The linear activations z have not been computed!")
    ELSE
    LET z == Get(l.linear_activation)
    IN  IF ~BroadcastOk(g.dims, z.dims) THEN Abort(l, "mul")
        ELSE
        LET lag == BroadcastDims(g.dims, z.dims)
        IN  IF ~IsSome(l.previous_input)
            THEN Abort(l, "The previous activations have not been computed!")
            ELSE
            LET x == Get(l.previous_input)
            IN  IF ~MatmulOk(lag, FALSE, x.dims, TRUE) THEN Abort(l, "matmul")
                ELSE
                LET dw == MatmulDims(lag, FALSE, x.dims, TRUE)
                    l1 == [l EXCEPT
                             !.dweights = Tensor(<<dw[1], dw[2], dw[3], 1>>, x.src,
                                                 DWeightsBy(l.regularizer)),
                             !.dbiases = Tensor(<<lag[1], lag[2], lag[3], 1>>, z.src,
                                                <<"dbiases", 0>>)]
                IN  IF ~MatmulOk(l.weights.dims, TRUE, lag, FALSE)
                    THEN Abort(l1, "matmul")
                    ELSE Done(l1, Tensor(MatmulDims(l.weights.dims, TRUE, lag, FALSE),
                                         g.src, <<"backward", 0>>))


(***************************************************************************)
(* u64 arithmetic.  A build with overflow checks (debug) panics where a    *)
(* build without them (release) wraps around.                              *)
(***************************************************************************)
WordMod == 2 ^ WordBits
SubWraps(a, b) == a < b
SubU64(a, b) == (a - b) % WordMod
AddWraps(a, b) == a + b >= WordMod
AddU64(a, b) == (a + b) % WordMod

(***************************************************************************)
(* arrayfire::unwrap(input, wx, wy, sx, sy, 0, 0, true): one column per    *)
(* window position; the window must fit into the input.                    *)
(***************************************************************************)
UnwrapOk(d, wx, wy, sx, sy) ==
    /\ Elements(d) > 0
    /\ wx >= 1 /\ wy >= 1 /\ sx >= 1 /\ sy >= 1
    /\ wx <= d[1] /\ wy <= d[2]
WindowsAlong(in, w, s) == ((in - w) \div s) + 1
UnwrapDims(d, wx, wy, sx, sy) ==
    <<wx * wy, WindowsAlong(d[1], wx, sx) * WindowsAlong(d[2], wy, sy), d[3], d[4]>>
\* join(dim, first, second): an empty operand leaves the other one unchanged.
JoinDims(dim, a, b) ==
    IF Elements(a) = 0 THEN b
    ELSE IF Elements(b) = 0 THEN a
    ELSE [i \in 1..4 |-> IF i = dim + 1 THEN a[i] + b[i] ELSE a[i]]

(***************************************************************************)
(* Conv2D (src/src/layers/conv2d.rs).                                      *)
(***************************************************************************)
Conv2DNew(num_filters, kernel_size, stride, padding) ==
    [BlankLayer EXCEPT !.kind = "Conv2D", !.kernel_size = kernel_size,
                       !.stride = stride, !.padding = padding,
                       !.num_filters = num_filters]

\* pad_along = max((out - 1) * stride + kernel - in, 0) in u64, then its split
\* into a leading and a trailing part.  ovf tells that a u64 operation left
\* the range of u64 on the way.
PadAlong(in, out, stride, kernel) ==
    LET om1 == SubU64(out, 1)
        sum == AddU64((om1 * stride) % WordMod, kernel)
    IN  [v |-> Max2(SubU64(sum, in), 0),
         ovf |-> \/ SubWraps(out, 1)
                 \/ om1 * stride >= WordMod
                 \/ AddWraps((om1 * stride) % WordMod, kernel)
                 \/ SubWraps(sum, in)]
\* The smaller and the larger half: (pad - 1) / 2 and (pad + 1) / 2 when odd.
PadSmall(pad) == IF pad % 2 = 0 THEN pad \div 2 ELSE SubU64(pad, 1) \div 2
PadLarge(pad) == IF pad % 2 = 0 THEN pad \div 2 ELSE AddU64(pad, 1) \div 2
PadSplitWraps(pad) == pad % 2 = 1 /\ AddWraps(pad, 1)

\* compute_padding_size(height, width, h_out, w_out); padding_size is
\* (top, right, bottom, left).  checked: the build has overflow checks.
ComputePaddingSize(l, height, width, h_out, w_out, checked) ==
    IF l.padding # "Same" THEN Done(l, EmptyTensor)
    ELSE
    LET ph == PadAlong(height, h_out, l.stride[1], l.kernel_size[1])
        pw == PadAlong(width, w_out, l.stride[2], l.kernel_size[2])
        ps == l.padding_size
        top == IF ph.v # 0 THEN PadSmall(ph.v) ELSE ps[1]
        bottom == IF ph.v # 0 THEN PadLarge(ph.v) ELSE ps[3]
        right == IF pw.v # 0 THEN PadLarge(pw.v) ELSE ps[2]
        left == IF pw.v # 0 THEN PadSmall(pw.v) ELSE ps[4]
        wraps == ph.ovf \/ pw.ovf \/ PadSplitWraps(ph.v) \/ PadSplitWraps(pw.v)
    IN  IF checked /\ wraps THEN Abort(l, "attempt to subtract with overflow")
        ELSE Done([l EXCEPT !.padding_size = <<top, right, bottom, left>>], EmptyTensor)

\* A padding that adds the top and left blocks only.
PadInputLeadingOnly(l, d) ==
    IF l.padding # "Same" THEN None
    ELSE
    LET ps == l.padding_size
    IN  Some(JoinDims(1, <<d[1] + ps[1], ps[4], d[3], d[4]>>,
                      JoinDims(0, <<ps[1], d[2], d[3], d[4]>>, d)))
\* pad_input: None for Valid; for Same the input joined with zero blocks of
\* padding_size rows and columns: top, then right, then bottom, then left.
PadInput(l, d) ==
    IF l.padding # "Same" THEN None
    ELSE
    LET ps == l.padding_size
        pad_top == <<ps[1], d[2], d[3], d[4]>>
        pad_right == <<d[1] + ps[1], ps[2], d[3], d[4]>>
        pad_bottom == <<ps[3], d[2] + ps[2], d[3], d[4]>>
        pad_left == <<d[1] + ps[1] + ps[3], ps[4], d[3], d[4]>>
        p1 == JoinDims(0, pad_top, d)
        p2 == JoinDims(1, p1, pad_right)
        p3 == JoinDims(0, p2, pad_bottom)
    IN  Some(JoinDims(1, pad_left, p3))

\* img_to_col: unwrap into windows, then one column per window and sample,
\* each holding the window across all channels.
ImgToColOk(l, d) ==
    UnwrapOk(d, l.kernel_size[1], l.kernel_size[2], l.stride[1], l.stride[2])
ImgToCol(l, d) ==
    LET col == UnwrapDims(d, l.kernel_size[1], l.kernel_size[2], l.stride[1], l.stride[2])
        rows == col[1] * d[3]
    IN  <<rows, Elements(col) \div rows, 1, 1>>

\* compute_convolution: the dimensions of (linear_activation, input_values),
\* or the panic of the first backend call that rejects its operands.
ComputeConvolution(l, x) ==
    LET batch_size == x.dims[4]
        h_out == l.output_shape[1]
        w_out == l.output_shape[2]
        padded == PadInput(l, x.dims)
        img == IF IsSome(padded) THEN Get(padded) ELSE x.dims
    IN  IF ~ImgToColOk(l, img) THEN Abort(l, "unwrap")
        ELSE
        LET input_values == ImgToCol(l, img)
        IN  IF ~MatmulOk(l.weights.dims, FALSE, input_values, FALSE)
            THEN Abort(l, "matmul")
            ELSE
            LET mm == MatmulDims(l.weights.dims, FALSE, input_values, FALSE)
            IN  IF ~BroadcastOk(mm, l.biases.dims) THEN Abort(l, "add")
                ELSE
                LET conv == BroadcastDims(mm, l.biases.dims)
                    shaped == <<l.num_filters, h_out * w_out, 1, batch_size>>
                    result == <<h_out, w_out, l.num_filters, batch_size>>
                IN  IF h_out < 1 \/ w_out < 1 \/ Elements(conv) # Elements(shaped)
                    THEN Abort(l, "moddims")
                    ELSE Done(l, Tensor(result, x.src, <<"linear", 0>>))
\* The second component of compute_convolution's result: the column matrix.
ConvolutionColumns(l, x) ==
    LET padded == PadInput(l, x.dims)
    IN  Tensor(ImgToCol(l, IF IsSome(padded) THEN Get(padded) ELSE x.dims),
               x.src, <<"columns", 0>>)

\* initialize_parameters of Conv2D: the output size of each axis, then
\* compute_padding_size, the shapes and the parameters
\* (weights [num_filters, kh * kw * channels], one bias per filter).
ConvOutSame(in, stride) == CeilDiv(in, stride)
ConvOutValid(in, kernel, stride) == ((in - kernel) \div stride) + 1
ConvOut(padding, in, kernel, stride) ==
    IF padding = "Same" THEN ConvOutSame(in, stride)
    ELSE ConvOutValid(in, kernel, stride)
Conv2DInitializeParameters(l, input_shape, checked) ==
    LET h_out == ConvOut(l.padding, input_shape[1], l.kernel_size[1], l.stride[1])
        w_out == ConvOut(l.padding, input_shape[2], l.kernel_size[2], l.stride[2])
        r == ComputePaddingSize(l, input_shape[1], input_shape[2], h_out, w_out, checked)
    IN  IF ~r.ok THEN r
        ELSE Done([r.layer EXCEPT
                     !.input_shape = input_shape,
                     !.output_shape = <<h_out, w_out, l.num_filters, 1>>,
                     !.weights = Tensor(<<l.num_filters,
                                          l.kernel_size[1] * l.kernel_size[2] * input_shape[3],
                                          1, 1>>, NoData, <<"init", 0>>),
                     !.biases = Tensor(<<l.num_filters, 1, 1, 1>>, NoData, <<"init", 0>>),
                     !.n_init = l.n_init + 1],
                  EmptyTensor)

\* Forward of Conv2D: the activation of the convolution; the training variant
\* caches the linear activation, the input and the column matrix.
Conv2DComputeActivation(l, x) ==
    LET r == ComputeConvolution(l, x)
    IN  IF ~r.ok THEN r ELSE Done(l, Tensor(r.out.dims, x.src, <<"forward", 0>>))
Conv2DComputeActivationMut(l, x) ==
    LET r == ComputeConvolution(l, x)
    IN  IF ~r.ok THEN r
        ELSE Done([l EXCEPT !.linear_activation = Some(r.out),
                            !.previous_activation = Some(x),
                            !.reshaped_input = ConvolutionColumns(l, x),
                            !.trained = TRUE],
                  Tensor(r.out.dims, x.src, <<"forward", 0>>))
\* Backward of Conv2D: filter and bias gradients from the cached columns, the
\* input gradient folded back to the layout of the input.
Conv2DComputeDactivationMut(l, g) ==
    IF ~IsSome(l.linear_activation)
    THEN Abort(l, "The linear activations z have not been computed!")
    ELSE IF ~BroadcastOk(g.dims, Get(l.linear_activation).dims) THEN Abort(l, "mul")
    ELSE Done([l EXCEPT !.dweights = Tensor(l.weights.dims, l.reshaped_input.src,
                                            <<"dweights", 0>>),
                        !.dbiases = Tensor(l.biases.dims, Get(l.linear_activation).src,
                                           <<"dbiases", 0>>)],
              Tensor(<<l.input_shape[1], l.input_shape[2], l.input_shape[3], g.dims[4]>>,
                     g.src, <<"backward", 0>>))

(***************************************************************************)
(* MaxPool2D (src/src/layers/max_pooling.rs).                              *)
(***************************************************************************)
MaxPool2DWithParam(pool_size, stride) ==
    [BlankLayer EXCEPT !.kind = "MaxPool2D", !.pool_size = pool_size,
                       !.stride = stride,
                       !.row_indices = PlaceholderIndices,
                       !.col_indices = PlaceholderIndices]
\* new(pool_size): the stride defaults to the pooling window.
MaxPool2DNew(pool_size) == MaxPool2DWithParam(pool_size, pool_size)

\* initialize_parameters of MaxPool2D: out = floor((in - pool) / stride) + 1.
MaxPool2DInitializeParameters(l, input_shape) ==
    [l EXCEPT !.input_shape = input_shape,
              !.output_shape =
                  <<((input_shape[1] - l.pool_size[1]) \div l.stride[1]) + 1,
                    ((input_shape[2] - l.pool_size[2]) \div l.stride[2]) + 1,
                    input_shape[3], 1>>,
              !.n_init = l.n_init + 1]

\* max_pool: the windows as columns, the maximum of each, reshaped to
\* [h_out, w_out, channels, batch]; one row index per window.
MaxPool(l, x) ==
    LET d == x.dims
    IN  IF ~UnwrapOk(d, l.pool_size[1], l.pool_size[2], l.stride[1], l.stride[2])
        THEN Abort(l, "unwrap")
        ELSE
        LET cols == UnwrapDims(d, l.pool_size[1], l.pool_size[2], l.stride[1], l.stride[2])
            max_values == <<1, Elements(cols) \div cols[1], 1, 1>>
            output == <<l.output_shape[1], l.output_shape[2], d[3], d[4]>>
        IN  IF l.output_shape[1] < 1 \/ l.output_shape[2] < 1
               \/ Elements(max_values) # Elements(output)
            THEN Abort(l, "moddims")
            ELSE Done(l, Tensor(output, x.src, <<"forward", 0>>))
MaxPoolIndices(l, x) ==
    LET cols == UnwrapDims(x.dims, l.pool_size[1], l.pool_size[2], l.stride[1], l.stride[2])
    IN  Tensor(<<Elements(cols) \div cols[1], 1, 1, 1>>, x.src, <<"indices", 0>>)
MaxPool2DComputeActivation(l, x) == MaxPool(l, x)
MaxPool2DComputeActivationMut(l, x) ==
    LET r == MaxPool(l, x)
    IN  IF ~r.ok THEN r
        ELSE Done([l EXCEPT !.row_indices = MaxPoolIndices(l, x),
                            !.col_indices = MaxPoolIndices(l, x),
                            !.trained = TRUE], r.out)
\* Backward of MaxPool2D: each upstream value goes to the position its
\* recorded index names; there is one recorded index per upstream value.
MaxPool2DComputeDactivationMut(l, g) ==
    IF Elements(g.dims) = 0 \/ Elements(l.row_indices.dims) # Elements(g.dims)
    THEN Abort(l, "sparse")
    ELSE Done(l, Tensor(<<l.input_shape[1], l.input_shape[2], l.input_shape[3], g.dims[4]>>,
                        g.src, <<"backward", 0>>))

(***************************************************************************)
(* MaxPool2D on the element values of one channel of one sample.  An image *)
(* is a function from <<row, column>> to its value.  Window k (counted     *)
(* down the rows first) is column k of the unwrapped matrix, and row r of  *)
(* that column is the r-th cell of the window, again rows first.           *)
(***************************************************************************)
PoolColumns(l, h, w) ==
    WindowsAlong(h, l.pool_size[1], l.stride[1]) * WindowsAlong(w, l.pool_size[2], l.stride[2])
PoolRows(l) == l.pool_size[1] * l.pool_size[2]
PoolCell(l, h, k, r) ==
    LET nh == WindowsAlong(h, l.pool_size[1], l.stride[1])
        i == (k - 1) % nh
        j == (k - 1) \div nh
        a == (r - 1) % l.pool_size[1]
        b == (r - 1) \div l.pool_size[1]
    IN  <<i * l.stride[1] + a + 1, j * l.stride[2] + b + 1>>
UnwrapValues(l, h, w, x) ==
    [k \in 1..PoolColumns(l, h, w) |-> [r \in 1..PoolRows(l) |-> x[PoolCell(l, h, k, r)]]]
\* imax(cols, 0): the maximum of each column and the row that holds it; which
\* of several equal maxima is reported is left to the backend.
ColumnMax(col) == CHOOSE m \in {col[r] : r \in DOMAIN col} : \A r \in DOMAIN col : col[r] <= m
\* A backend that reports any row.
ColumnArgMaxAnyRow(col) == DOMAIN col
ColumnArgMax(col) == {r \in DOMAIN col : col[r] = ColumnMax(col)}
MaxPoolValues(l, h, w, x) ==
    LET cols == UnwrapValues(l, h, w, x) IN [k \in DOMAIN cols |-> ColumnMax(cols[k])]
MaxPoolRowIndices(l, h, w, x) ==
    LET cols == UnwrapValues(l, h, w, x)
    IN  {idx \in [DOMAIN cols -> 1..PoolRows(l)] :
            \A k \in DOMAIN cols : idx[k] \in ColumnArgMax(cols[k])}
\* Backward on values: a matrix that is zero but for upstream value k at
\* (row_indices[k], k), folded back to the image by adding up the cells that
\* fall on the same position.
RECURSIVE SumOver(_, _)
SumOver(f, dom) ==
    IF dom = {} THEN 0
    ELSE LET d == CHOOSE e \in dom : TRUE IN f[d] + SumOver(f, dom \ {d})
MaxPoolBackwardValues(l, h, w, idx, g) ==
    [p \in (1..h) \X (1..w) |->
        LET hits == {k \in DOMAIN g : PoolCell(l, h, k, idx[k]) = p}
        IN  SumOver(g, hits)]

(***************************************************************************)
(* Flatten (src/src/layers/flatten.rs): two shapes, no other state.        *)
(***************************************************************************)
FlattenNew == [BlankLayer EXCEPT !.kind = "Flatten"]
FlattenInitializeParameters(l, input_shape) ==
    [l EXCEPT !.input_shape = input_shape,
              !.output_shape = <<input_shape[1] * input_shape[2] * input_shape[3], 1, 1, 1>>,
              !.n_init = l.n_init + 1]
\* (h, w, c, batch) -> (h * w * c, 1, 1, batch)
FlattenComputeActivation(l, x) ==
    IF Elements(x.dims) = 0 THEN Abort(l, "moddims")
    ELSE Done(l, Tensor(<<x.dims[1] * x.dims[2] * x.dims[3], 1, 1, x.dims[4]>>,
                        x.src, <<"forward", 0>>))
FlattenComputeActivationMut(l, x) ==
    LET r == FlattenComputeActivation(l, x)
    IN  IF ~r.ok THEN r ELSE Done([l EXCEPT !.trained = TRUE], r.out)
\* The inverse reshape, to the input shape the layer was initialised with.
FlattenComputeDactivationMut(l, g) ==
    LET back == <<l.input_shape[1], l.input_shape[2], l.input_shape[3], g.dims[4]>>
    IN  IF Elements(g.dims) = 0 \/ Elements(back) # Elements(g.dims)
        THEN Abort(l, "moddims")
        ELSE Done(l, Tensor(back, g.src, <<"backward", 0>>))

(***************************************************************************)
(* Dropout (src/src/layers/dropout.rs).  drop_rate is held in percent.     *)
(***************************************************************************)
\* 1. / (1. - drop_rate)
ScalingFactor(drop_rate) == FDiv(Fin(100), Fin(100 - drop_rate))
\* A range check that also refuses the two endpoints.
DropRateValidOpen(drop_rate) == ~(drop_rate <= 0 \/ drop_rate >= 100)
DropRateValid(drop_rate) == ~(drop_rate < 0 \/ drop_rate > 100)
\* new(drop_rate): panics outside [0, 1].
DropoutNew(drop_rate) ==
    IF ~DropRateValid(drop_rate) THEN Abort(BlankLayer, "The drop rate is invalid.")
    ELSE Done([BlankLayer EXCEPT !.kind = "Dropout", !.drop_rate = drop_rate,
                                 !.scaling_factor = ScalingFactor(drop_rate)],
              EmptyTensor)
DropoutInitializeParameters(l, input_shape) ==
    [l EXCEPT !.output_shape = input_shape, !.n_init = l.n_init + 1]
\* compute_activation: a copy of the input.
DropoutComputeActivation(l, x) == Done(l, Tensor(x.dims, x.src, <<"forward", 0>>))
\* compute_activation_mut: a mask of the input's dimensions, scaled, is
\* cached in grad and multiplied with the input.
DropoutComputeActivationMut(l, x) ==
    IF Elements(x.dims) = 0 THEN Abort(l, "random_uniform")
    ELSE Done([l EXCEPT !.grad = Tensor(x.dims, x.src, <<"mask", 0>>),
                        !.trained = TRUE],
              Tensor(x.dims, x.src, <<"forward", 0>>))
\* Backward of Dropout: the upstream gradient times the cached mask.
DropoutComputeDactivationMut(l, g) ==
    IF ~BroadcastOk(g.dims, l.grad.dims) THEN Abort(l, "mul")
    ELSE Done(l, Tensor(BroadcastDims(g.dims, l.grad.dims), g.src, <<"backward", 0>>))

(***************************************************************************)
(* Dropout on element values.  A tensor is the sequence of its elements;   *)
(* randoms holds the uniform draw of each element, in percent, strictly    *)
(* between 0 and 100.                                                      *)
(***************************************************************************)
MulValues(a, b) == [i \in DOMAIN a |-> FMul(a[i], b[i])]
\* A mask that keeps the units whose draw is below drop_rate.
GenerateBinomialMaskInverted(l, randoms) ==
    [i \in DOMAIN randoms |-> IF randoms[i] < l.drop_rate THEN Fin(1) ELSE Fin(0)]
\* generate_binomial_mask: 1 where the draw is greater than drop_rate
GenerateBinomialMask(l, randoms) ==
    [i \in DOMAIN randoms |-> IF randoms[i] > l.drop_rate THEN Fin(1) ELSE Fin(0)]
\* compute_activation: a copy
DropoutForwardValues(l, x) == x
\* compute_activation_mut: grad = mask * scaling_factor; output = input * grad
DropoutGradValues(l, randoms) ==
    [i \in DOMAIN randoms |-> FMul(GenerateBinomialMask(l, randoms)[i], l.scaling_factor)]
DropoutForwardTrainValues(l, x, randoms) == MulValues(x, DropoutGradValues(l, randoms))
\* compute_dactivation_mut: upstream * grad
DropoutBackwardValues(grad, g) == MulValues(g, grad)

(***************************************************************************)
(* The Layer trait (src/src/layers/mod.rs): dispatch on the variant.       *)
(***************************************************************************)
InitializeParameters(l, input_shape, checked) ==
    CASE l.kind = "Dense" -> Done(DenseInitializeParameters(l, input_shape), EmptyTensor)
      [] l.kind = "Conv2D" -> Conv2DInitializeParameters(l, input_shape, checked)
      [] l.kind = "MaxPool2D" ->
            Done(MaxPool2DInitializeParameters(l, input_shape), EmptyTensor)
      [] l.kind = "Flatten" -> Done(FlattenInitializeParameters(l, input_shape), EmptyTensor)
      [] l.kind = "Dropout" -> Done(DropoutInitializeParameters(l, input_shape), EmptyTensor)
ComputeActivation(l, x) ==
    CASE l.kind = "Dense" -> DenseComputeActivation(l, x)
      [] l.kind = "Conv2D" -> Conv2DComputeActivation(l, x)
      [] l.kind = "MaxPool2D" -> MaxPool2DComputeActivation(l, x)
      [] l.kind = "Flatten" -> FlattenComputeActivation(l, x)
      [] l.kind = "Dropout" -> DropoutComputeActivation(l, x)
ComputeActivationMut(l, x) ==
    CASE l.kind = "Dense" -> DenseComputeActivationMut(l, x)
      [] l.kind = "Conv2D" -> Conv2DComputeActivationMut(l, x)
      [] l.kind = "MaxPool2D" -> MaxPool2DComputeActivationMut(l, x)
      [] l.kind = "Flatten" -> FlattenComputeActivationMut(l, x)
      [] l.kind = "Dropout" -> DropoutComputeActivationMut(l, x)
ComputeDactivationMut(l, g) ==
    CASE l.kind = "Dense" -> DenseComputeDactivationMut(l, g)
      [] l.kind = "Conv2D" -> Conv2DComputeDactivationMut(l, g)
      [] l.kind = "MaxPool2D" -> MaxPool2DComputeDactivationMut(l, g)
      [] l.kind = "Flatten" -> FlattenComputeDactivationMut(l, g)
      [] l.kind = "Dropout" -> DropoutComputeDactivationMut(l, g)
\* parameters_mut: None by default; Dense and Conv2D return their weights and
\* biases with the gradients.
HasParameters(l) == l.kind \in {"Dense", "Conv2D"}

(***************************************************************************)
(* Persistence.  A saved layer is a group: its name, the names of the      *)
(* datasets written to it, and their values (held in a blank layer         *)
(* record).  from_hdf5_group panics when a dataset it expects is missing.  *)
(***************************************************************************)
Group(name, datasets, values) == [name |-> name, datasets |-> datasets, values |-> values]
Retrieved(l) == Done([l EXCEPT !.loaded = TRUE], EmptyTensor)
CouldNotRetrieve == Abort(BlankLayer, "Could not retrieve a dataset.")
\* Regularizer::from_hdf5_group: the regularizer of the group, if it has one.
RegularizerFromHdf5Group(g) ==
    IF "regularizer" \in g.datasets THEN g.values.regularizer ELSE None

DenseDatasets ==
    {"units", "activation", "weights", "biases", "input_shape", "output_shape",
     "weights_initializer", "biases_initializer"}
\* save: the eight datasets of the group.
DenseSave(l) ==
    Group("Dense", DenseDatasets,
          [BlankLayer EXCEPT !.kind = "Dense", !.units = l.units,
                             !.activation = ActivationToU8(l.activation),
                             !.weights = H5TensorFrom(l.weights),
                             !.biases = H5TensorFrom(l.biases),
                             !.input_shape = l.input_shape,
                             !.output_shape = l.output_shape,
                             !.weights_initializer = InitializerSave(l.weights_initializer),
                             !.biases_initializer = InitializerSave(l.biases_initializer)])
\* from_hdf5_group: reads the eight datasets and the regularizer; panics on
\* a missing dataset, an unknown activation or an unknown initializer.
DenseFromHdf5Group(g) ==
    IF ~(DenseDatasets \subseteq g.datasets) THEN CouldNotRetrieve
    ELSE LET activation == ActivationFromU8(g.values.activation)
             weights_initializer == InitializerFrom(g.values.weights_initializer)
             biases_initializer == InitializerFrom(g.values.biases_initializer)
         IN  IF ~activation.ok THEN Abort(BlankLayer, "Could not create activation variant.")
             ELSE IF ~weights_initializer.ok \/ ~biases_initializer.ok
             THEN Abort(BlankLayer, "Unrecognized initializer")
             ELSE Retrieved([BlankLayer EXCEPT
                       !.kind = "Dense", !.units = g.values.units,
                       !.activation = activation.activation,
                       !.weights = TensorFromH5(g.values.weights),
                       !.biases = TensorFromH5(g.values.biases),
                       !.input_shape = g.values.input_shape,
                       !.output_shape = g.values.output_shape,
                       !.weights_initializer = weights_initializer.init,
                       !.biases_initializer = biases_initializer.init,
                       !.regularizer = RegularizerFromHdf5Group(g)])

Conv2DDatasets ==
    {"activation", "kernel_size", "stride", "padding", "padding_size", "num_filters",
     "input_shape", "output_shape", "weights", "biases", "weights_initializer",
     "biases_initializer"}
Conv2DSave(l) ==
    Group("Conv2D", Conv2DDatasets,
          [BlankLayer EXCEPT !.kind = "Conv2D", !.kernel_size = l.kernel_size,
                             !.stride = l.stride, !.padding = l.padding,
                             !.padding_size = l.padding_size,
                             !.num_filters = l.num_filters,
                             !.input_shape = l.input_shape,
                             !.output_shape = l.output_shape,
                             !.weights = l.weights, !.biases = l.biases])
Conv2DFromHdf5Group(g) ==
    IF ~(Conv2DDatasets \subseteq g.datasets) THEN CouldNotRetrieve
    ELSE Retrieved([BlankLayer EXCEPT
                       !.kind = "Conv2D", !.kernel_size = g.values.kernel_size,
                       !.stride = g.values.stride, !.padding = g.values.padding,
                       !.padding_size = g.values.padding_size,
                       !.num_filters = g.values.num_filters,
                       !.input_shape = g.values.input_shape,
                       !.output_shape = g.values.output_shape,
                       !.weights = g.values.weights, !.biases = g.values.biases,
                       !.regularizer = RegularizerFromHdf5Group(g)])

MaxPool2DDatasets == {"pool_size", "stride", "input_shape", "output_shape"}
MaxPool2DSave(l) ==
    Group("MaxPool2D", MaxPool2DDatasets,
          [BlankLayer EXCEPT !.kind = "MaxPool2D", !.pool_size = l.pool_size,
                             !.stride = l.stride,
                             !.input_shape = l.input_shape,
                             !.output_shape = l.output_shape])
MaxPool2DFromHdf5Group(g) ==
    IF ~(MaxPool2DDatasets \subseteq g.datasets) THEN CouldNotRetrieve
    ELSE Retrieved([BlankLayer EXCEPT
                       !.kind = "MaxPool2D", !.pool_size = g.values.pool_size,
                       !.stride = g.values.stride,
                       !.input_shape = g.values.input_shape,
                       !.output_shape = g.values.output_shape,
                       !.row_indices = PlaceholderIndices,
                       !.col_indices = PlaceholderIndices])

DropoutDatasets == {"drop_rate", "output_shape"}
DropoutSave(l) ==
    Group("Dropout", DropoutDatasets,
          [BlankLayer EXCEPT !.kind = "Dropout", !.drop_rate = l.drop_rate,
                             !.output_shape = l.output_shape])
DropoutFromHdf5Group(g) ==
    IF ~(DropoutDatasets \subseteq g.datasets) THEN CouldNotRetrieve
    ELSE Retrieved([BlankLayer EXCEPT
                       !.kind = "Dropout", !.drop_rate = g.values.drop_rate,
                       !.scaling_factor = ScalingFactor(g.values.drop_rate),
                       !.output_shape = g.values.output_shape])

FlattenDatasets == {"input_shape", "output_shape"}
FlattenSave(l) ==
    Group("Flatten", FlattenDatasets,
          [BlankLayer EXCEPT !.kind = "Flatten",
                             !.input_shape = l.input_shape,
                             !.output_shape = l.output_shape])
FlattenFromHdf5Group(g) ==
    IF ~(FlattenDatasets \subseteq g.datasets) THEN CouldNotRetrieve
    ELSE Retrieved([BlankLayer EXCEPT
                       !.kind = "Flatten",
                       !.input_shape = g.values.input_shape,
                       !.output_shape = g.values.output_shape])

Save(l) ==
    CASE l.kind = "Dense" -> DenseSave(l)
      [] l.kind = "Conv2D" -> Conv2DSave(l)
      [] l.kind = "MaxPool2D" -> MaxPool2DSave(l)
      [] l.kind = "Flatten" -> FlattenSave(l)
      [] l.kind = "Dropout" -> DropoutSave(l)
FromHdf5Group(g) ==
    CASE g.name = "Dense" -> DenseFromHdf5Group(g)
      [] g.name = "Conv2D" -> Conv2DFromHdf5Group(g)
      [] g.name = "MaxPool2D" -> MaxPool2DFromHdf5Group(g)
      [] g.name = "Flatten" -> FlattenFromHdf5Group(g)
      [] g.name = "Dropout" -> DropoutFromHdf5Group(g)


(***************************************************************************)
(* BatchIterator (src/src/data/batch_iterator.rs).  A tensor of the data   *)
(* set is modelled by its number of samples (the fourth axis).             *)
(***************************************************************************)
\* An iterator that rounds the number of batches down.
BatchIteratorNewFloor(x_samples, y_samples, batch_size) ==
    IF x_samples # y_samples THEN Panic("assertion failed: (left == right)")
    ELSE
    LET num_samples == x_samples
    IN  [ok |-> TRUE, why |-> "",
         num_samples |-> num_samples,
         batch_size |-> IF batch_size < num_samples THEN batch_size ELSE num_samples,
         batch |-> 0,
         num_batches |-> IF batch_size < num_samples
                         THEN num_samples \div batch_size ELSE 1]
\* An iterator that does not compare the sample counts.
BatchIteratorNewUnchecked(x_samples, y_samples, batch_size) ==
    LET num_samples == x_samples
    IN  [ok |-> TRUE, why |-> "",
         num_samples |-> num_samples,
         batch_size |-> IF batch_size < num_samples THEN batch_size ELSE num_samples,
         batch |-> 0,
         num_batches |-> IF batch_size < num_samples
                         THEN CeilDiv(num_samples, batch_size) ELSE 1]
\* new((x, y), batch_size): panics when the sample counts differ.
BatchIteratorNew(x_samples, y_samples, batch_size) ==
    IF x_samples # y_samples THEN Panic("assertion failed: (left == right)")
    ELSE
    LET num_samples == x_samples
    IN  [ok |-> TRUE, why |-> "",
         num_samples |-> num_samples,
         batch_size |-> IF batch_size < num_samples THEN batch_size ELSE num_samples,
         batch |-> 0,
         num_batches |-> IF batch_size < num_samples
                         THEN CeilDiv(num_samples, batch_size) ELSE 1]
\* next(): the sample range [lb, ub] of batch number `batch`, taken from both
\* tensors, or the end of the iteration.
BatchIteratorHasNext(it) == it.batch < it.num_batches
BatchIteratorRange(it) ==
    LET lb == it.batch * it.batch_size
        ub == Min2((it.batch + 1) * it.batch_size, it.num_samples) - 1
    IN  [x |-> <<lb, ub>>, y |-> <<lb, ub>>]

(***************************************************************************)
(* TabularDataSet (src/src/data/tabular_data.rs), by sample counts.        *)
(* valid_frac is the fraction num / den.                                   *)
(***************************************************************************)
DataSet(x_train, y_train, x_valid, y_valid, num_train, num_valid) ==
    [ok |-> TRUE, why |-> "", x_train |-> x_train, y_train |-> y_train,
     x_valid |-> x_valid, y_valid |-> y_valid,
     num_train_samples |-> num_train, num_valid_samples |-> num_valid,
     made_by |-> <<"", 0, 0>>]
\* made_by is history: the constructor called and the sample counts given to it.
NoDataSet == [ok |-> FALSE, why |-> "none", x_train |-> 0, y_train |-> 0,
              x_valid |-> None, y_valid |-> None,
              num_train_samples |-> 0, num_valid_samples |-> 0,
              made_by |-> <<"", 0, 0>>]
DataSetError(why) == [NoDataSet EXCEPT !.why = why]

\* from_csv: Err(DimensionMismatch) when the two files hold different numbers
\* of records; otherwise the shuffled rows are split into the first
\* num_train_samples and the remaining floor(valid_frac * num_samples) ones.
\* With no training row, num_train_samples - 1 leaves u64 and the selection
\* panics in either build; empty_ok tells whether the backend accepts the
\* selection Seq(num_samples, num_samples - 1) of no validation row.
FromCsv(num_in_samples, num_out_samples, num, den, empty_ok) ==
    IF num_in_samples # num_out_samples THEN DataSetError("DimensionMismatch")
    ELSE
    LET num_samples == num_in_samples
        num_valid_samples == (num * num_samples) \div den
        num_train_samples == num_samples - num_valid_samples
    IN  IF num_train_samples = 0 \/ (num_valid_samples = 0 /\ ~empty_ok)
        THEN DataSetError("panic")
        ELSE DataSet(num_train_samples, num_train_samples,
                     Some(num_valid_samples), Some(num_valid_samples),
                     num_train_samples, num_valid_samples)
\* from_tensor: takes the tensors as they are; never fails.
FromTensor(x_train, y_train, x_valid, y_valid) ==
    DataSet(x_train, y_train, x_valid, y_valid,
            x_train, IF IsSome(x_valid) THEN Get(x_valid) ELSE 0)

(***************************************************************************)
(* State.                                                                  *)
(***************************************************************************)
(***************************************************************************)
(* Optimizers.  The optimizer keeps one slot per trainable tensor, assigned *)
(* when the network registers a layer's parameters; a slot's accumulators  *)
(* are created by the first update of the slot.  An accumulator is         *)
(* described by what went into it: how many updates, of which parameter,   *)
(* and the mini-batch of the last one.                                     *)
(***************************************************************************)
OptimizerKinds == {"SGD", "RMSProp", "Adam", "AdaDelta"}
OptimizerNew(kind) == [kind |-> kind, t |-> 0, slots |-> <<>>, uses |-> <<>>]

\* The accumulators each optimizer keeps per parameter.
Accumulators(kind) ==
    CASE kind = "SGD" -> {"v"}
      [] kind = "RMSProp" -> {"c"}
      [] kind = "Adam" -> {"m", "v"}
      [] kind = "AdaDelta" -> {"Eg2", "Edx2"}
      [] OTHER -> {}
FreshState(kind) == [acc |-> Accumulators(kind), n |-> 0, by |-> {}, last |-> 0]

\* parameters_mut: the trainable tensors of a layer, in order.
ParameterNames(l) == IF l.kind \in {"Dense", "Conv2D"} THEN <<"weights", "biases">> ELSE <<>>

\* Registration of the parameters of layer li: one new slot per tensor.
NewSlot(li, l, p) == [owner |-> <<li, p>>, dims |-> l[p].dims, state |-> None]
RegisterParameters(o, li, l) ==
    [o EXCEPT !.slots = @ \o [i \in 1..Len(ParameterNames(l)) |->
                                 NewSlot(li, l, ParameterNames(l)[i])]]

\* A lookup that takes the first slot of a tensor of the same shape.
SlotOfByShape(o, li, p) ==
    LET own == CHOOSE i \in 1..Len(o.slots) : o.slots[i].owner = <<li, p>>
    IN  CHOOSE i \in 1..Len(o.slots) :
            /\ o.slots[i].dims = o.slots[own].dims
            /\ \A j \in 1..(i - 1) : o.slots[j].dims # o.slots[own].dims
\* The slot of parameter p of layer li.
SlotOf(o, li, p) == CHOOSE i \in 1..Len(o.slots) : o.slots[i].owner = <<li, p>>

\* A read that finds no state, whatever was written.
StateReadNothing(o, i) == None
\* The state an update reads: what the slot holds, nothing before the first
\* update.
StateRead(o, i) == o.slots[i].state

\* update(value, gradient, state) -> new_state, for the parameter owner in
\* mini-batch step; the state is created when there is none.
OptimizerUpdate(kind, owner, step, state) ==
    LET old == IF IsSome(state) THEN Get(state) ELSE FreshState(kind)
    IN  [old EXCEPT !.n = @ + 1, !.by = @ \cup {owner}, !.last = step]

\* The update of one parameter; uses records what the update read.
UpdateSlot(o, li, p, step) ==
    LET i == SlotOf(o, li, p)
        read == StateRead(o, i)
    IN  [o EXCEPT !.slots[i].state = Some(OptimizerUpdate(o.kind, <<li, p>>, step, read)),
                  !.uses = Append(@, [slot |-> i, owner |-> <<li, p>>, step |-> step,
                                      t |-> o.t, read |-> read])]
RECURSIVE UpdateParameters(_, _, _, _, _)
UpdateParameters(o, li, names, k, step) ==
    IF k > Len(names) THEN o
    ELSE UpdateParameters(UpdateSlot(o, li, names[k], step), li, names, k + 1, step)

\* A step counter that advances with every layer of the update loop.
UpdateTimeStepPerLayer(o, first) ==
    [o EXCEPT !.t = IF o.kind = "Adam" THEN @ + 1 ELSE @,
              !.uses = IF first THEN <<>> ELSE @]
\* Adam's step counter advances at the start of a mini-batch's updates.
UpdateTimeStep(o, first) ==
    IF first
    THEN [o EXCEPT !.t = IF o.kind = "Adam" THEN @ + 1 ELSE @, !.uses = <<>>]
    ELSE o

VARIABLES
    overflow_checks,  \* the build panics on u64 overflow (debug) or wraps (release)
    \* --- a Network and its fit call
    net_input,        \* Network.input_shape
    layers,           \* Network.layers
    data,             \* the data set handed to fit
    pc,               \* where the program is: building, or a step of fit, or ended
    why,              \* the message of the panic that ended the program
    fit,              \* the arguments and loop counters of the running fit call
    act,              \* the tensor passed from one step of fit to the next
    it,               \* the BatchIterator of the running epoch
    yielded,          \* history: the sample ranges the iterator has yielded
    iter_args,        \* history: the arguments of BatchIterator::new
    saved,            \* the group a layer was saved to, if any
    vals,             \* the element values of the tensors of a single-layer run
    opt,              \* the optimizer: its kind, step counter and per-slot state
    log               \* history: the steps of the mini-batch in progress

net_vars == <<net_input, layers, data, pc, why, fit, act, it, yielded, iter_args, saved, vals,
              opt, log>>
vars == <<overflow_checks, net_vars>>

NoFit == [epochs |-> 0, batch_size |-> 0, epoch |-> 0, step |-> 0, li |-> 0]
NoIter == [ok |-> FALSE, why |-> "none"]
NoVals == <<>>
NoOptimizer == OptimizerNew("none")

(***************************************************************************)
(* Inputs of the model.                                                    *)
(***************************************************************************)
InputShapes == {<<2, 2, 1, 1>>, <<4, 1, 1, 1>>}
\* The layers a program hands to Network.add.
NewLayers ==
    {DenseNew(u, "Tanh") : u \in 1..2}
    \cup {FlattenNew, MaxPool2DNew(<<2, 2>>), DropoutNew(50).layer}
    \cup {Conv2DNew(1, <<2, 2>>, <<1, 1>>, p) : p \in {"Same", "Valid"}}
ValidFracs == {<<0, 1>>, <<1, 2>>, <<1, 1>>}

\* Nothing built, loaded or run yet.
Idle ==
    /\ layers = <<>>
    /\ data = NoDataSet
    /\ pc = "build"
    /\ why = ""
    /\ fit = NoFit
    /\ act = EmptyTensor
    /\ it = NoIter
    /\ yielded = <<>>
    /\ iter_args = <<0, 0, 0>>
    /\ saved = None
    /\ vals = NoVals
    /\ log = <<>>

NetInit ==
    /\ net_input \in InputShapes
    /\ opt = OptimizerNew("Adam")
    /\ Idle

Init ==
    /\ overflow_checks \in BOOLEAN
    /\ NetInit

(***************************************************************************)
(* Network.add(layer): pushes the layer and initialises its parameters     *)
(* with the output shape of the layer before it, or with the network's     *)
(* input shape.                                                            *)
(***************************************************************************)
AddInputShape ==
    IF Len(layers) > 0 THEN layers[Len(layers)].output_shape ELSE net_input
Add(layer) ==
    /\ pc = "build"
    /\ Len(layers) < MaxLayers
    /\ LET r == InitializeParameters(layer, AddInputShape, overflow_checks)
       IN  IF r.ok
           THEN /\ layers' = Append(layers, r.layer)
                /\ opt' = RegisterParameters(opt, Len(layers) + 1, r.layer)
                /\ UNCHANGED <<pc, why>>
           ELSE /\ pc' = "panic"
                /\ why' = "add"
                /\ UNCHANGED <<layers, opt>>
    /\ UNCHANGED <<overflow_checks, vals, saved, net_input, data, fit, act, it, yielded, iter_args, log>>

(***************************************************************************)
(* The data set is created once, by from_csv or from_tensor.               *)
(***************************************************************************)
LoadCsv(rows_in, rows_out, frac, empty_ok) ==
    /\ pc = "build"
    /\ data = NoDataSet
    /\ data' = [FromCsv(rows_in, rows_out, frac[1], frac[2], empty_ok)
                   EXCEPT !.made_by = <<"from_csv", rows_in, rows_out>>]
    /\ IF data'.why = "panic"
       THEN pc' = "panic" /\ why' = "from_csv"
       ELSE UNCHANGED <<pc, why>>
    /\ UNCHANGED <<overflow_checks, vals, opt, saved, net_input, layers, fit, act, it, yielded, iter_args, log>>
LoadTensors(x_train, y_train, valid) ==
    /\ pc = "build"
    /\ data = NoDataSet
    /\ data' = [FromTensor(x_train, y_train, valid, valid)
                   EXCEPT !.made_by = <<"from_tensor", x_train, y_train>>]
    /\ UNCHANGED <<overflow_checks, vals, opt, saved, net_input, layers, pc, why, fit, act, it, yielded, iter_args, log>>

(***************************************************************************)
(* Network.fit(data, epochs, batch_size): one action per step of the loop. *)
(* The input tensors have the network's input shape on the first three     *)
(* axes and the samples on the fourth.                                     *)
(***************************************************************************)
NumLayers == Len(layers)
Entry(ev, li, got) == [ev |-> ev, li |-> li, got |-> got]
Fail(where) ==
    /\ pc' = "panic"
    /\ why' = where

FitBegin(epochs, batch_size) ==
    /\ pc = "build"
    /\ data.ok
    /\ pc' = "epoch"
    /\ fit' = [epochs |-> epochs, batch_size |-> batch_size, epoch |-> 1,
               step |-> 0, li |-> 0]
    /\ UNCHANGED <<overflow_checks, vals, opt, saved, net_input, layers, data, why, act, it, yielded, iter_args, log>>

\* batches = BatchIterator(train_x, train_y, batch_size)
EpochBegin ==
    /\ pc = "epoch"
    /\ LET r == BatchIteratorNew(data.x_train, data.y_train, fit.batch_size)
       IN  IF r.ok
           THEN /\ it' = r
                /\ pc' = "batch"
                /\ UNCHANGED why
           ELSE /\ Fail("BatchIterator::new")
                /\ UNCHANGED it
    /\ yielded' = <<>>
    /\ iter_args' = <<data.x_train, data.y_train, fit.batch_size>>
    /\ UNCHANGED <<overflow_checks, vals, opt, saved, net_input, layers, data, fit, act, log>>

\* for (x, y) in batches: the next mini-batch, or the end of the epoch's loop.
\* After the last update of one mini-batch the loop asks for the next.
AfterForward(li, n) ==
    IF li < n THEN [pc |-> "forward", li |-> li + 1] ELSE [pc |-> "loss_forward", li |-> 0]
NextBatch ==
    /\ pc = "batch"
    /\ IF BatchIteratorHasNext(it)
       THEN LET range == BatchIteratorRange(it)
                first == AfterForward(0, NumLayers)
            IN  /\ it' = [it EXCEPT !.batch = it.batch + 1]
                /\ yielded' = Append(yielded, range)
                /\ act' = Tensor(<<net_input[1], net_input[2], net_input[3],
                                   range.x[2] - range.x[1] + 1>>,
                                 fit.step + 1, <<"x", 0>>)
                /\ fit' = [fit EXCEPT !.step = fit.step + 1, !.li = first.li]
                /\ pc' = first.pc
                /\ log' = <<>>
       ELSE /\ pc' = "validate"
            /\ UNCHANGED <<it, yielded, act, fit, log>>
    /\ UNCHANGED <<overflow_checks, vals, opt, saved, net_input, layers, data, why, iter_args>>

\* pred = forward_train(x) through all layers in order
ForwardTrain ==
    /\ pc = "forward"
    /\ LET r == ComputeActivationMut(layers[fit.li], act)
           next == AfterForward(fit.li, NumLayers)
       IN  IF r.ok
           THEN /\ layers' = [layers EXCEPT ![fit.li] = r.layer]
                /\ act' = [r.out EXCEPT !.by = <<"forward_train", fit.li>>]
                /\ log' = Append(log, Entry("forward_train", fit.li, act.by))
                /\ fit' = [fit EXCEPT !.li = next.li]
                /\ pc' = next.pc
                /\ UNCHANGED why
           ELSE /\ Fail("forward_train")
                /\ UNCHANGED <<layers, act, log, fit>>
    /\ UNCHANGED <<overflow_checks, vals, opt, saved, net_input, data, it, yielded, iter_args>>

\* loss_value = loss.forward(pred, y)
LossForward ==
    /\ pc = "loss_forward"
    /\ log' = Append(log, Entry("loss_forward", 0, act.by))
    /\ pc' = "loss_backward"
    /\ UNCHANGED <<overflow_checks, vals, opt, saved, net_input, layers, data, why, fit, act, it, yielded, iter_args>>

\* After the last layer's backward only, straight to the updates.
AfterBackwardSkipRest(li) == [pc |-> "update", li |-> 1]
AfterBackward(li) ==
    IF li > 1 THEN [pc |-> "backward", li |-> li - 1] ELSE [pc |-> "update", li |-> 1]
\* grad = loss.backward(pred, y)
LossBackward ==
    /\ pc = "loss_backward"
    /\ LET first == AfterBackward(NumLayers + 1)
       IN  /\ act' = Tensor(act.dims, act.src, <<"loss_backward", 0>>)
           /\ log' = Append(log, Entry("loss_backward", 0, act.by))
           /\ fit' = [fit EXCEPT !.li = first.li]
           /\ pc' = first.pc
    /\ UNCHANGED <<overflow_checks, vals, opt, saved, net_input, layers, data, why, it, yielded, iter_args>>

\* for layer in reverse(layers): grad = layer.backward(grad)
Backward ==
    /\ pc = "backward"
    /\ LET r == ComputeDactivationMut(layers[fit.li], act)
           next == AfterBackward(fit.li)
       IN  IF r.ok
           THEN /\ layers' = [layers EXCEPT ![fit.li] = r.layer]
                /\ act' = [r.out EXCEPT !.by = <<"backward", fit.li>>]
                /\ log' = Append(log, Entry("backward", fit.li, act.by))
                /\ fit' = [fit EXCEPT !.li = next.li]
                /\ pc' = next.pc
                /\ UNCHANGED why
           ELSE /\ Fail("backward")
                /\ UNCHANGED <<layers, act, log, fit>>
    /\ UNCHANGED <<overflow_checks, vals, opt, saved, net_input, data, it, yielded, iter_args>>

\* for layer with parameters: optimizer.update(parameters, gradients, state).
\* The updated parameters derive from the mini-batch of the gradients.
Updated(l) ==
    [l EXCEPT !.weights = Tensor(l.weights.dims, l.dweights.src, <<"update", 0>>),
              !.biases = Tensor(l.biases.dims, l.dbiases.src, <<"update", 0>>)]
Update ==
    /\ pc = "update"
    /\ LET stepped == UpdateTimeStep(opt, fit.li = 1)
       IN  IF fit.li <= NumLayers
           THEN /\ IF HasParameters(layers[fit.li])
                   THEN /\ layers' = [layers EXCEPT ![fit.li] = Updated(layers[fit.li])]
                        /\ opt' = UpdateParameters(stepped, fit.li,
                                                   ParameterNames(layers[fit.li]), 1, fit.step)
                        /\ log' = Append(log, Entry("update", fit.li, <<"gradients", fit.li>>))
                   ELSE /\ opt' = stepped
                        /\ UNCHANGED <<layers, log>>
                /\ fit' = [fit EXCEPT !.li = fit.li + 1]
                /\ UNCHANGED pc
           ELSE /\ pc' = "batch"
                /\ opt' = stepped
                /\ UNCHANGED <<layers, log, fit>>
    /\ UNCHANGED <<overflow_checks, vals, saved, net_input, data, why, act, it, yielded, iter_args>>

\* val_pred = forward(val_x) through all layers, when there is a validation
\* split; then the next epoch, or the end of fit.
RECURSIVE ForwardAll(_, _, _)
ForwardAll(ls, i, x) ==
    IF i > Len(ls) THEN [ok |-> TRUE, layers |-> ls, out |-> x]
    ELSE LET r == ComputeActivation(ls[i], x)
             after == [ls EXCEPT ![i] = r.layer]
         IN  IF r.ok THEN ForwardAll(after, i + 1, r.out)
             ELSE [ok |-> FALSE, layers |-> after, out |-> r.out]
Validate ==
    /\ pc = "validate"
    /\ LET present == IsSome(data.x_valid)
           val_x == Tensor(<<net_input[1], net_input[2], net_input[3],
                             IF present THEN Get(data.x_valid) ELSE 0>>,
                           ValidationData, <<"x", 0>>)
           r == IF present THEN ForwardAll(layers, 1, val_x)
                ELSE [ok |-> TRUE, layers |-> layers, out |-> act]
       IN  /\ layers' = r.layers
           /\ IF ~r.ok
              THEN /\ Fail("forward")
                   /\ UNCHANGED fit
              ELSE /\ IF fit.epoch < fit.epochs
                      THEN /\ pc' = "epoch"
                           /\ fit' = [fit EXCEPT !.epoch = fit.epoch + 1]
                      ELSE /\ pc' = "done"
                           /\ UNCHANGED fit
                   /\ UNCHANGED why
    /\ UNCHANGED <<overflow_checks, vals, opt, saved, net_input, data, act, it, yielded, iter_args, log>>

Next ==
    \/ \E layer \in NewLayers : Add(layer)
    \/ \E rows_in, rows_out \in 1..MaxSamples, frac \in ValidFracs, empty_ok \in BOOLEAN :
          LoadCsv(rows_in, rows_out, frac, empty_ok)
    \/ \E x_train, y_train \in 1..MaxSamples, valid \in {None, Some(1)} :
          LoadTensors(x_train, y_train, valid)
    \/ \E epochs \in 1..MaxEpochs, batch_size \in 1..MaxSamples :
          FitBegin(epochs, batch_size)
    \/ EpochBegin
    \/ NextBatch
    \/ ForwardTrain
    \/ LossForward
    \/ LossBackward
    \/ Backward
    \/ Update
    \/ Validate

Spec == Init /\ [][Next]_vars

(***************************************************************************)
(* Properties of Network.add and Network.fit.                              *)
(***************************************************************************)
InFit == pc \in {"epoch", "batch", "forward", "loss_forward", "loss_backward",
                 "backward", "update", "validate"}
InBatch == pc \in {"forward", "loss_forward", "loss_backward", "backward", "update"}

\* C1: when every add succeeded, no forward or forward_train of a later fit
\* panics on the shape of the input it is given.
C1_AddRejectsEveryShapeMismatch ==
    ~(pc = "panic" /\ why \in {"forward_train", "forward"})

\* C2: every layer of the network was initialised exactly once, layer 1 with
\* the network's input shape and every other layer with the output shape of
\* the layer before it.
InitialisedWith(l) == IF l.kind = "Dropout" THEN l.output_shape ELSE l.input_shape
ExpectedInputShape(i) == IF i = 1 THEN net_input ELSE layers[i - 1].output_shape
C2_InitOnceWithPreviousOutputShape ==
    \A i \in 1..NumLayers :
        /\ layers[i].n_init = 1
        /\ InitialisedWith(layers[i]) = ExpectedInputShape(i)
        /\ layers[i].kind = "Dense" =>
              layers[i].weights.dims[2] =
                  ExpectedInputShape(i)[1] * ExpectedInputShape(i)[2] * ExpectedInputShape(i)[3]
C2_Witness ==
    /\ NumLayers = 2
    /\ layers[1].kind = "Flatten" /\ layers[2].kind = "Dense"
    /\ net_input = <<2, 2, 1, 1>>
    /\ layers[2].input_shape = <<4, 1, 1, 1>>

\* C3: the steps of a mini-batch happen in the order forward_train 1..n,
\* loss.forward, loss.backward, backward n..1, update of the layers with
\* parameters; each step receives the tensor the step before it returned.
ExpectedForward ==
    [i \in 1..NumLayers |->
        Entry("forward_train", i, IF i = 1 THEN <<"x", 0>> ELSE <<"forward_train", i - 1>>)]
Prediction == IF NumLayers = 0 THEN <<"x", 0>> ELSE <<"forward_train", NumLayers>>
ExpectedBackward ==
    [k \in 1..NumLayers |->
        LET i == NumLayers + 1 - k
        IN  Entry("backward", i,
                  IF i = NumLayers THEN <<"loss_backward", 0>> ELSE <<"backward", i + 1>>)]
RECURSIVE ExpectedUpdates(_)
ExpectedUpdates(i) ==
    IF i > NumLayers THEN <<>>
    ELSE (IF layers[i].kind \in {"Dense", "Conv2D"}
          THEN <<Entry("update", i, <<"gradients", i>>)>> ELSE <<>>)
         \o ExpectedUpdates(i + 1)
ExpectedLog ==
    ExpectedForward
    \o <<Entry("loss_forward", 0, Prediction), Entry("loss_backward", 0, Prediction)>>
    \o ExpectedBackward \o ExpectedUpdates(1)
IsPrefix(a, b) == Len(a) <= Len(b) /\ SubSeq(b, 1, Len(a)) = a
BatchCompleted == pc \in {"batch", "validate", "epoch", "done"} /\ fit.step >= 1
C3_StepsOfAMiniBatchInOrder ==
    /\ IsPrefix(log, ExpectedLog)
    /\ pc = "backward" => Len(log) >= NumLayers + 2
    /\ pc = "update" => Len(log) >= 2 * NumLayers + 2
    /\ BatchCompleted => log = ExpectedLog
C3_Witness ==
    /\ pc = "batch" /\ fit.step = 2
    /\ NumLayers = 2 /\ layers[1].kind = "Dense" /\ layers[2].kind = "Dense"
    /\ Len(log) = 8

\* C4: the cache of a layer holds one mini-batch, the one last given to
\* forward_train: backward reads the cache of its own mini-batch and stores
\* gradients computed from it, and forward_train of a mini-batch starts only
\* after the parameters were updated with the gradients of the one before.
CacheSources(l) ==
    CASE l.kind = "Dense" ->
            {t[1].src : t \in {o \in {l.previous_input, l.linear_activation} : IsSome(o)}}
      [] l.kind = "Conv2D" ->
            {t[1].src : t \in {o \in {l.previous_activation, l.linear_activation} : IsSome(o)}}
            \cup {l.reshaped_input.src}
      [] l.kind = "MaxPool2D" -> {l.row_indices.src, l.col_indices.src}
      [] l.kind = "Dropout" -> {l.grad.src}
      [] OTHER -> {}
C4_CacheHoldsTheCurrentMiniBatch ==
    /\ pc = "backward" =>
          \A i \in 1..NumLayers :
              /\ CacheSources(layers[i]) \subseteq {fit.step}
              /\ (i > fit.li /\ HasParameters(layers[i])) =>
                    /\ layers[i].dweights.src = fit.step
                    /\ layers[i].dbiases.src = fit.step
    /\ pc = "forward" =>
          \A i \in 1..NumLayers :
              /\ HasParameters(layers[i]) =>
                    /\ layers[i].weights.src = fit.step - 1
                    /\ layers[i].biases.src = fit.step - 1
              /\ i < fit.li => CacheSources(layers[i]) \subseteq {fit.step}
C4_Witness ==
    /\ pc = "backward" /\ fit.step = 2 /\ fit.li = 1
    /\ NumLayers = 2 /\ layers[1].kind = "Dense" /\ layers[2].kind = "Dense"
    /\ layers[2].dweights.src = 2
    /\ Get(layers[1].previous_input).src = 2

\* C8: from_csv gives the DimensionMismatch error for files of different
\* sample counts, BatchIterator::new panics on tensors of different sample
\* counts, and no step of training runs on such a data set.
Trained == fit.step >= 1 \/ \E i \in 1..NumLayers : layers[i].trained
C8_MismatchedSampleCountsFailBeforeTraining ==
    /\ (data.made_by[1] = "from_csv" /\ data.made_by[2] # data.made_by[3]) =>
          ~data.ok /\ data.why = "DimensionMismatch"
    /\ (data.ok /\ data.x_train # data.y_train) =>
          /\ ~Trained
          /\ pc \in {"build", "epoch", "panic"}
          /\ it = NoIter
    /\ ~data.ok => pc \in {"build", "panic"}
C8_Witness ==
    /\ pc = "panic" /\ why = "BatchIterator::new"
    /\ data.made_by[1] = "from_tensor" /\ data.x_train = 2 /\ data.y_train = 1
    /\ NumLayers >= 1

(***************************************************************************)
(* A program that makes a BatchIterator over two tensors and drains it.    *)
(***************************************************************************)
BatchInit ==
    /\ overflow_checks \in BOOLEAN
    /\ net_input = UnresolvedDim
    /\ opt = NoOptimizer
    /\ Idle

IterNew(x_samples, y_samples, batch_size) ==
    /\ pc = "build"
    /\ iter_args = <<0, 0, 0>>
    /\ iter_args' = <<x_samples, y_samples, batch_size>>
    /\ LET r == BatchIteratorNew(x_samples, y_samples, batch_size)
       IN  IF r.ok
           THEN /\ it' = r
                /\ pc' = "iterating"
                /\ UNCHANGED why
           ELSE /\ Fail("BatchIterator::new")
                /\ UNCHANGED it
    /\ UNCHANGED <<overflow_checks, vals, opt, saved, net_input, layers, data, fit, act, yielded, log>>

IterNext ==
    /\ pc = "iterating"
    /\ IF BatchIteratorHasNext(it)
       THEN /\ it' = [it EXCEPT !.batch = it.batch + 1]
            /\ yielded' = Append(yielded, BatchIteratorRange(it))
            /\ UNCHANGED pc
       ELSE /\ pc' = "iter_end"
            /\ UNCHANGED <<it, yielded>>
    /\ UNCHANGED <<overflow_checks, vals, opt, saved, net_input, layers, data, why, fit, act, iter_args, log>>

BatchNext ==
    \/ \E x_samples, y_samples \in 1..MaxIterSamples, batch_size \in 1..(MaxIterSamples + 1) :
          IterNew(x_samples, y_samples, batch_size)
    \/ IterNext

SpecBatch == BatchInit /\ [][BatchNext]_vars

\* C7: for n >= 1 samples and batch size b >= 1 the iterator yields ceil(n / b)
\* batches when b < n and one batch of all n samples otherwise; the batches
\* are consecutive ranges that start at sample 0 and end at sample n - 1, the
\* two tensors are cut at the same ranges, every batch but the last holds b
\* samples and the last holds between 1 and b.
RangeSize(r) == r[2] - r[1] + 1
NumBatchesOf(n, b) ==
    IF b < n THEN CHOOSE k \in 1..n : k * b >= n /\ (k - 1) * b < n ELSE 1
C7_BatchesPartitionTheSamples ==
    LET n == iter_args[1]
        b == iter_args[3]
        k == Len(yielded)
    IN  pc \in {"iterating", "iter_end"} =>
        /\ \A i \in 1..k :
              /\ yielded[i].x = yielded[i].y
              /\ yielded[i].x[1] = (IF i = 1 THEN 0 ELSE yielded[i - 1].x[2] + 1)
              /\ RangeSize(yielded[i].x) >= 1 /\ RangeSize(yielded[i].x) <= b
              /\ yielded[i].x[2] <= n - 1
              /\ i < k => RangeSize(yielded[i].x) = b
        /\ pc = "iter_end" =>
              /\ k = NumBatchesOf(n, b)
              /\ yielded[k].x[2] = n - 1
              /\ b >= n => yielded = <<[x |-> <<0, n - 1>>, y |-> <<0, n - 1>>]>>
C7_Witness ==
    /\ pc = "iter_end"
    /\ iter_args = <<5, 5, 2>>
    /\ Len(yielded) = 3
    /\ yielded[3].x = <<4, 4>>

(***************************************************************************)
(* A program that makes one Conv2D layer, initialises it for an input      *)
(* shape and runs a forward pass over a batch.                             *)
(***************************************************************************)
ConvInputShapes == {<<h, w, c, 1>> : h, w \in 1..MaxConvIn, c \in 1..2}
ConvKernels == (1..MaxKernel) \X (1..MaxKernel)
ConvStrides == (1..MaxStride) \X (1..MaxStride)

ConvStart ==
    /\ overflow_checks \in BOOLEAN
    /\ net_input \in ConvInputShapes
    /\ opt = NoOptimizer
    /\ Idle

ConvNew(num_filters, kernel_size, stride, padding) ==
    /\ pc = "build"
    /\ layers' = <<Conv2DNew(num_filters, kernel_size, stride, padding)>>
    /\ pc' = "made"
    /\ UNCHANGED <<overflow_checks, vals, opt, saved, net_input, data, why, fit, act, it, yielded,
                   iter_args, log>>

ConvInitialize ==
    /\ pc = "made"
    /\ LET r == Conv2DInitializeParameters(layers[1], net_input, overflow_checks)
       IN  IF r.ok
           THEN /\ layers' = <<r.layer>>
                /\ pc' = "ready"
                /\ UNCHANGED why
           ELSE /\ Fail("initialize_parameters")
                /\ UNCHANGED layers
    /\ UNCHANGED <<overflow_checks, vals, opt, saved, net_input, data, fit, act, it, yielded,
                   iter_args, log>>

ConvForward(batch, train) ==
    /\ pc = "ready"
    /\ LET x == Tensor(<<net_input[1], net_input[2], net_input[3], batch>>, 1, <<"x", 0>>)
           r == IF train THEN Conv2DComputeActivationMut(layers[1], x)
                ELSE Conv2DComputeActivation(layers[1], x)
       IN  /\ log' = <<x>>
           /\ IF r.ok
              THEN /\ layers' = <<r.layer>>
                   /\ act' = r.out
                   /\ pc' = "forwarded"
                   /\ UNCHANGED why
              ELSE /\ Fail("forward")
                   /\ UNCHANGED <<layers, act>>
    /\ UNCHANGED <<overflow_checks, vals, opt, saved, net_input, data, fit, it, yielded, iter_args>>

ConvNext ==
    \/ \E num_filters \in 1..2, kernel_size \in ConvKernels, stride \in ConvStrides,
          padding \in {"Same", "Valid"} :
          ConvNew(num_filters, kernel_size, stride, padding)
    \/ ConvInitialize
    \/ \E batch \in 1..2, train \in BOOLEAN : ConvForward(batch, train)

SpecConv == ConvStart /\ [][ConvNext]_vars

ConvInitialised == pc \in {"ready", "forwarded", "panic"}
ValidCase(l) ==
    /\ l.padding = "Valid"
    /\ net_input[1] >= l.kernel_size[1]
    /\ net_input[2] >= l.kernel_size[2]
SameStrideOneCase(l) == l.padding = "Same" /\ l.stride = <<1, 1>>
ExpectedConvOut(l, axis) ==
    IF l.padding = "Valid"
    THEN ((net_input[axis] - l.kernel_size[axis]) \div l.stride[axis]) + 1
    ELSE net_input[axis]

\* C9: a Conv2D with Valid padding, in >= kernel >= 1 and stride >= 1 has
\* floor((in - kernel) / stride) + 1 outputs on each axis; with Same padding
\* and stride 1 it has as many as the input, for every kernel size; the
\* output has num_filters channels.  Initialisation and the forward pass
\* succeed and the forward pass returns (h_out, w_out, num_filters, batch).
C9_Conv2DOutputSize ==
    ConvInitialised =>
        LET l == layers[1]
            shape == <<ExpectedConvOut(l, 1), ExpectedConvOut(l, 2), l.num_filters>>
        IN  (ValidCase(l) \/ SameStrideOneCase(l)) =>
                /\ pc # "panic"
                /\ l.output_shape = <<shape[1], shape[2], shape[3], 1>>
                /\ pc = "forwarded" =>
                      act.dims = <<shape[1], shape[2], shape[3], log[1].dims[4]>>
C9_Witness ==
    /\ pc = "forwarded"
    /\ net_input = <<5, 5, 1, 1>>
    /\ layers[1].kernel_size = <<3, 3>>
    /\ layers[1].stride = <<1, 1>>
    /\ layers[1].padding = "Valid"
    /\ act.dims = <<3, 3, 2, 2>>
C9_WitnessSame ==
    /\ pc = "forwarded"
    /\ net_input = <<4, 3, 2, 1>>
    /\ layers[1].kernel_size = <<3, 2>>
    /\ SameStrideOneCase(layers[1])
    /\ act.dims = <<4, 3, 1, 2>>

\* C10: with Same padding the total padding of an axis is
\* max(0, (out - 1) * stride + kernel - in) for every in, kernel and stride,
\* also where (out - 1) * stride + kernel < in: no wrap-around, no abort; and
\* top + bottom is the total of the height, left + right that of the width.
TotalPadding(l, axis) ==
    Max2(0, (l.output_shape[axis] - 1) * l.stride[axis] + l.kernel_size[axis]
            - net_input[axis])
C10_SamePaddingIsNeverNegative ==
    (ConvInitialised /\ layers[1].padding = "Same") =>
        LET l == layers[1]
        IN  /\ ~(pc = "panic" /\ why = "initialize_parameters")
            /\ l.padding_size[1] + l.padding_size[3] = TotalPadding(l, 1)
            /\ l.padding_size[2] + l.padding_size[4] = TotalPadding(l, 2)

(***************************************************************************)
(* A program that makes one layer, initialises it and then calls           *)
(* forward_train, backward, save and load on it in any order.              *)
(***************************************************************************)
LayerStart ==
    /\ overflow_checks \in BOOLEAN
    /\ net_input \in InputShapes
    /\ opt = NoOptimizer
    /\ Idle

Call(op, l, ok) ==
    [op |-> op, kind |-> l.kind, trained |-> l.trained, loaded |-> l.loaded, ok |-> ok]

LayerNew(layer) ==
    /\ pc = "build"
    /\ layers' = <<layer>>
    /\ pc' = "made"
    /\ UNCHANGED <<overflow_checks, vals, opt, saved, net_input, data, why, fit, act, it, yielded,
                   iter_args, log>>

LayerInitialize ==
    /\ pc = "made"
    /\ LET r == InitializeParameters(layers[1], net_input, overflow_checks)
       IN  IF r.ok
           THEN /\ layers' = <<r.layer>>
                /\ pc' = "ready"
                /\ UNCHANGED why
           ELSE /\ Fail("initialize_parameters")
                /\ UNCHANGED layers
    /\ UNCHANGED <<overflow_checks, vals, opt, saved, net_input, data, fit, act, it, yielded,
                   iter_args, log>>

LayerForwardTrain(batch) ==
    /\ pc = "ready"
    /\ Len(log) < MaxCalls
    /\ LET l == layers[1]
           x == Tensor(<<net_input[1], net_input[2], net_input[3], batch>>,
                       Len(log) + 1, <<"x", 0>>)
           r == ComputeActivationMut(l, x)
       IN  /\ log' = Append(log, Call("forward_train", l, r.ok))
           /\ IF r.ok
              THEN /\ layers' = <<r.layer>>
                   /\ act' = r.out
                   /\ UNCHANGED <<pc, why>>
              ELSE /\ Fail("forward_train")
                   /\ UNCHANGED <<layers, act>>
    /\ UNCHANGED <<overflow_checks, vals, opt, saved, net_input, data, fit, it, yielded, iter_args>>

\* forward, the inference pass, on a batch of its own
LayerForward(batch) ==
    /\ pc = "ready"
    /\ Len(log) < MaxCalls
    /\ LET l == layers[1]
           x == Tensor(<<net_input[1], net_input[2], net_input[3], batch>>,
                       Len(log) + 1, <<"x", 0>>)
           r == ComputeActivation(l, x)
       IN  /\ log' = Append(log, Call("forward", l, r.ok))
           /\ layers' = <<r.layer>>
           /\ IF r.ok
              THEN /\ act' = r.out
                   /\ UNCHANGED <<pc, why>>
              ELSE /\ Fail("forward")
                   /\ UNCHANGED act
    /\ UNCHANGED <<overflow_checks, vals, opt, saved, net_input, data, fit, it, yielded, iter_args>>

\* backward on a gradient that has the layer's output shape
LayerBackward(batch) ==
    /\ pc = "ready"
    /\ Len(log) < MaxCalls
    /\ LET l == layers[1]
           g == Tensor(<<l.output_shape[1], l.output_shape[2], l.output_shape[3], batch>>,
                       Len(log) + 1, <<"dloss", 0>>)
           r == ComputeDactivationMut(l, g)
       IN  /\ log' = Append(log, Call("backward", l, r.ok))
           /\ IF r.ok
              THEN /\ layers' = <<r.layer>>
                   /\ act' = r.out
                   /\ UNCHANGED <<pc, why>>
              ELSE /\ Fail("backward")
                   /\ UNCHANGED <<layers, act>>
    /\ UNCHANGED <<overflow_checks, vals, opt, saved, net_input, data, fit, it, yielded, iter_args>>

LayerSave ==
    /\ pc = "ready"
    /\ saved' = Some(Save(layers[1]))
    /\ UNCHANGED <<overflow_checks, vals, opt, net_input, layers, data, pc, why, fit, act, it,
                   yielded, iter_args, log>>

LayerLoad ==
    /\ pc = "ready"
    /\ IsSome(saved)
    /\ LET r == FromHdf5Group(Get(saved))
       IN  IF r.ok
           THEN /\ layers' = <<r.layer>>
                /\ UNCHANGED <<pc, why>>
           ELSE /\ Fail("from_hdf5_group")
                /\ UNCHANGED layers
    /\ UNCHANGED <<overflow_checks, vals, opt, saved, net_input, data, fit, act, it, yielded,
                   iter_args, log>>

LayerNext ==
    \/ \E layer \in NewLayers : LayerNew(layer)
    \/ LayerInitialize
    \/ \E batch \in 1..MaxSamples : LayerForwardTrain(batch)
    \/ \E batch \in 1..MaxSamples : LayerForward(batch)
    \/ \E batch \in 1..MaxSamples : LayerBackward(batch)
    \/ LayerSave
    \/ LayerLoad

SpecLayer == LayerStart /\ [][LayerNext]_vars

\* C5: for every layer variant, backward on an instance on which
\* forward_train has never been called aborts: it returns no gradient and
\* writes no parameter gradients.
C5_BackwardBeforeForwardTrainIsFatal ==
    \A i \in 1..Len(log) :
        (log[i].op = "backward" /\ ~log[i].trained /\ ~log[i].loaded) => ~log[i].ok

\* C6: a layer rebuilt from the store has no cached forward state and no
\* parameter gradients, whatever was called on the saved layer before, and
\* backward on it aborts until forward_train has been run on it.
CacheAbsent(l) ==
    /\ l.linear_activation = None
    /\ l.previous_input = None
    /\ l.previous_activation = None
    /\ l.reshaped_input = EmptyTensor
    /\ l.grad = EmptyTensor
    /\ l.row_indices \in {EmptyTensor, PlaceholderIndices}
    /\ l.col_indices \in {EmptyTensor, PlaceholderIndices}
GradientsAbsent(l) == l.dweights = EmptyTensor /\ l.dbiases = EmptyTensor
C6_ReloadedLayerHasNoCache ==
    /\ (layers # <<>> /\ layers[1].loaded /\ ~layers[1].trained) =>
           CacheAbsent(layers[1]) /\ GradientsAbsent(layers[1])
    /\ \A i \in 1..Len(log) :
           (log[i].op = "backward" /\ log[i].loaded /\ ~log[i].trained) => ~log[i].ok

\* C11: an odd Same-padding amount is split with one side one pixel larger:
\* bottom = top + 1 along the height and left = right + 1 along the width;
\* an even amount is split in two equal halves.  (Stated where the amount
\* itself does not leave u64.)
PaddingInRange(l, axis) ==
    (l.output_shape[axis] - 1) * l.stride[axis] + l.kernel_size[axis] >= net_input[axis]
C11_OddPaddingTieBreak ==
    (pc \in {"ready", "forwarded"} /\ layers[1].padding = "Same"
        /\ PaddingInRange(layers[1], 1) /\ PaddingInRange(layers[1], 2)) =>
        LET l == layers[1]
            top == l.padding_size[1]
            right == l.padding_size[2]
            bottom == l.padding_size[3]
            left == l.padding_size[4]
        IN  /\ bottom = top + (TotalPadding(l, 1) % 2)
            /\ left = right + (TotalPadding(l, 2) % 2)
            /\ top + bottom = TotalPadding(l, 1)
            /\ left + right = TotalPadding(l, 2)

(***************************************************************************)
(* A program that makes one MaxPool2D by new (stride = pool), initialises  *)
(* it, and runs forward_train and backward on the values of one image.     *)
(***************************************************************************)
PoolInputShapes == {<<2, 2, 1, 1>>, <<2, 4, 1, 1>>, <<4, 2, 1, 1>>, <<3, 2, 1, 1>>}
PoolSizes == {<<1, 1>>, <<1, 2>>, <<2, 1>>, <<2, 2>>}
Images(h, w) == [(1..h) \X (1..w) -> 0..MaxPixel]
\* upstream gradients: all ones, the number of the window, its negative
Upstreams(n) == {[k \in 1..n |-> 1], [k \in 1..n |-> k], [k \in 1..n |-> 0 - k]}
PoolVals(x, y, idx, g, dx) == [x |-> x, y |-> y, idx |-> idx, g |-> g, dx |-> dx]

PoolStart ==
    /\ overflow_checks \in BOOLEAN
    /\ net_input \in PoolInputShapes
    /\ opt = NoOptimizer
    /\ Idle

PoolNew(pool_size) ==
    /\ pc = "build"
    /\ layers' = <<MaxPool2DNew(pool_size)>>
    /\ pc' = "made"
    /\ UNCHANGED <<overflow_checks, vals, opt, saved, net_input, data, why, fit, act, it,
                   yielded, iter_args, log>>

PoolInitialize ==
    /\ pc = "made"
    /\ layers' = <<MaxPool2DInitializeParameters(layers[1], net_input)>>
    /\ pc' = "ready"
    /\ UNCHANGED <<overflow_checks, vals, opt, saved, net_input, data, why, fit, act, it,
                   yielded, iter_args, log>>

PoolForwardTrain(x) ==
    /\ pc = "ready"
    /\ LET l == layers[1]
           h == net_input[1]
           w == net_input[2]
           r == MaxPool2DComputeActivationMut(l, Tensor(net_input, 1, <<"x", 0>>))
       IN  IF r.ok
           THEN /\ \E idx \in MaxPoolRowIndices(l, h, w, x) :
                      vals' = PoolVals(x, MaxPoolValues(l, h, w, x), idx, <<>>, <<>>)
                /\ layers' = <<r.layer>>
                /\ act' = r.out
                /\ pc' = "forwarded"
                /\ UNCHANGED why
           ELSE /\ Fail("forward_train")
                /\ UNCHANGED <<layers, act, vals>>
    /\ UNCHANGED <<overflow_checks, opt, saved, net_input, data, fit, it, yielded, iter_args,
                   log>>

PoolBackward(g) ==
    /\ pc = "forwarded"
    /\ LET l == layers[1]
           r == MaxPool2DComputeDactivationMut(l, Tensor(act.dims, 1, <<"dloss", 0>>))
       IN  IF r.ok
           THEN /\ vals' = [vals EXCEPT
                              !.g = g,
                              !.dx = MaxPoolBackwardValues(l, net_input[1], net_input[2],
                                                           vals.idx, g)]
                /\ layers' = <<r.layer>>
                /\ act' = r.out
                /\ pc' = "backwarded"
                /\ UNCHANGED why
           ELSE /\ Fail("backward")
                /\ UNCHANGED <<layers, act, vals>>
    /\ UNCHANGED <<overflow_checks, opt, saved, net_input, data, fit, it, yielded, iter_args,
                   log>>

PoolNext ==
    \/ \E pool_size \in PoolSizes : PoolNew(pool_size)
    \/ PoolInitialize
    \/ \E x \in Images(net_input[1], net_input[2]) : PoolForwardTrain(x)
    \/ /\ pc = "forwarded"
       /\ \E g \in Upstreams(Len(vals.y)) : PoolBackward(g)

SpecPool == PoolStart /\ [][PoolNext]_vars

\* C12: forward holds the maximum of each window and records a position of
\* the window that holds it; backward gives each window's upstream value to
\* that position alone, so that with stride = pool the returned gradient
\* sums to the upstream gradient and has exactly one nonzero position in each
\* window, ties for the maximum included.
WindowCells(l, h, k) == {PoolCell(l, h, k, r) : r \in 1..PoolRows(l)}
C12_MaxPoolRoutesTheGradient ==
    LET l == layers[1]
        h == net_input[1]
        w == net_input[2]
    IN  /\ pc \in {"forwarded", "backwarded"} =>
              \A k \in DOMAIN vals.y :
                  /\ \A p \in WindowCells(l, h, k) : vals.x[p] <= vals.y[k]
                  /\ vals.x[PoolCell(l, h, k, vals.idx[k])] = vals.y[k]
        /\ pc = "backwarded" =>
              /\ SumOver(vals.dx, DOMAIN vals.dx) = SumOver(vals.g, DOMAIN vals.g)
              /\ \A k \in DOMAIN vals.g :
                    /\ vals.dx[PoolCell(l, h, k, vals.idx[k])] = vals.g[k]
                    /\ Cardinality({p \in WindowCells(l, h, k) : vals.dx[p] # 0}) = 1
\* two windows of two equal pixels each, the second position recorded in one
C12_Witness ==
    /\ pc = "backwarded"
    /\ net_input = <<2, 2, 1, 1>>
    /\ layers[1].pool_size = <<2, 1>>
    /\ vals.x = [p \in (1..2) \X (1..2) |-> 1]
    /\ vals.idx = <<2, 1>>
    /\ vals.g = <<1, 2>>
    /\ vals.dx[<<2, 1>>] = 1 /\ vals.dx[<<1, 2>>] = 2

(***************************************************************************)
(* A program that makes one Dropout layer, initialises it for two          *)
(* elements, and runs forward, forward_train and backward on their values. *)
(***************************************************************************)
DropRates == {0 - 100, 0 - 1, 0, 50, 99, 100, 101, 200}
DropElements == [1..2 -> {Fin(0 - 1), Fin(0), Fin(2)}]
DropRandoms == [1..2 -> {1, 50, 99}]
DropVals == [x |-> <<>>, y |-> <<>>, grad |-> <<>>, g |-> <<>>, dx |-> <<>>,
             fx |-> <<>>, fy |-> <<>>]

DropStart ==
    /\ overflow_checks \in BOOLEAN
    /\ net_input = <<2, 1, 1, 1>>
    /\ opt = NoOptimizer
    /\ Idle

DropNew(drop_rate) ==
    /\ pc = "build"
    /\ log' = <<drop_rate>>
    /\ LET r == DropoutNew(drop_rate)
       IN  IF r.ok
           THEN /\ layers' = <<r.layer>>
                /\ pc' = "made"
                /\ UNCHANGED why
           ELSE /\ Fail("new")
                /\ UNCHANGED layers
    /\ UNCHANGED <<overflow_checks, vals, opt, saved, net_input, data, fit, act, it, yielded,
                   iter_args>>

DropInitialize ==
    /\ pc = "made"
    /\ layers' = <<DropoutInitializeParameters(layers[1], net_input)>>
    /\ vals' = DropVals
    /\ pc' = "ready"
    /\ UNCHANGED <<overflow_checks, opt, saved, net_input, data, why, fit, act, it, yielded,
                   iter_args, log>>

DropForward(x) ==
    /\ pc \in {"ready", "trained"}
    /\ LET r == DropoutComputeActivation(layers[1], Tensor(net_input, 1, <<"x", 0>>))
       IN  /\ r.ok
           /\ act' = r.out
           /\ vals' = [vals EXCEPT !.fx = x, !.fy = DropoutForwardValues(layers[1], x)]
    /\ UNCHANGED <<overflow_checks, opt, saved, net_input, layers, data, pc, why, fit, it,
                   yielded, iter_args, log>>

DropForwardTrain(x, randoms) ==
    /\ pc = "ready"
    /\ LET r == DropoutComputeActivationMut(layers[1], Tensor(net_input, 1, <<"x", 0>>))
       IN  IF r.ok
           THEN /\ layers' = <<r.layer>>
                /\ act' = r.out
                /\ vals' = [vals EXCEPT
                              !.x = x,
                              !.grad = DropoutGradValues(layers[1], randoms),
                              !.y = DropoutForwardTrainValues(layers[1], x, randoms)]
                /\ pc' = "trained"
                /\ UNCHANGED why
           ELSE /\ Fail("forward_train")
                /\ UNCHANGED <<layers, act, vals>>
    /\ UNCHANGED <<overflow_checks, opt, saved, net_input, data, fit, it, yielded, iter_args,
                   log>>

DropBackward(g) ==
    /\ pc = "trained"
    /\ LET r == DropoutComputeDactivationMut(layers[1], Tensor(net_input, 1, <<"dloss", 0>>))
       IN  IF r.ok
           THEN /\ layers' = <<r.layer>>
                /\ act' = r.out
                /\ vals' = [vals EXCEPT !.g = g, !.dx = DropoutBackwardValues(vals.grad, g)]
                /\ pc' = "backwarded"
                /\ UNCHANGED why
           ELSE /\ Fail("backward")
                /\ UNCHANGED <<layers, act, vals>>
    /\ UNCHANGED <<overflow_checks, opt, saved, net_input, data, fit, it, yielded, iter_args,
                   log>>

DropNext ==
    \/ \E drop_rate \in DropRates : DropNew(drop_rate)
    \/ DropInitialize
    \/ \E x \in DropElements : DropForward(x)
    \/ \E x \in DropElements, randoms \in DropRandoms : DropForwardTrain(x, randoms)
    \/ \E g \in DropElements : DropBackward(g)

SpecDrop == DropStart /\ [][DropNext]_vars

\* C13: Dropout::new panics and makes no layer for every drop_rate < 0 or
\* > 1, and makes the layer for every drop_rate in [0, 1], 0 and 1 included.
C13_DropRateRange ==
    log # <<>> =>
        IF log[1] < 0 \/ log[1] > 100
        THEN pc = "panic" /\ why = "new" /\ layers = <<>>
        ELSE pc # "panic" /\ layers[1].kind = "Dropout" /\ layers[1].drop_rate = log[1]
C13_Witness == pc = "panic" /\ log = <<101>> /\ layers = <<>>
C13_WitnessEndpoint == pc = "ready" /\ log = <<100>> /\ layers[1].drop_rate = 100

\* C14: the inference forward of Dropout returns its input for every
\* drop_rate; with drop_rate = 0 forward_train returns its input too, with
\* every element kept and scaled by 1, and backward returns the upstream
\* gradient.
DropDone(states) == pc \in states /\ layers # <<>> /\ vals # NoVals
C14_DropoutIdentity ==
    /\ DropDone({"ready", "trained", "backwarded"}) => vals.fy = vals.fx
    /\ (DropDone({"trained", "backwarded"}) /\ layers[1].drop_rate = 0) =>
          /\ vals.y = vals.x
          /\ \A i \in DOMAIN vals.grad : vals.grad[i] = Fin(1)
    /\ (DropDone({"backwarded"}) /\ layers[1].drop_rate = 0) => vals.dx = vals.g
C14_Witness ==
    /\ DropDone({"backwarded"})
    /\ layers[1].drop_rate = 0
    /\ vals.x = <<Fin(2), Fin(0 - 1)>>
    /\ vals.y = <<Fin(2), Fin(0 - 1)>>
    /\ vals.g = <<Fin(0 - 1), Fin(2)>>
    /\ vals.dx = vals.g
    /\ vals.fx = <<Fin(2), Fin(2)>>

\* C15: with drop_rate = 1 every element of the forward_train output is
\* exactly zero, and the backward that follows succeeds and returns the
\* upstream gradient times the all-zero mask: zero, nothing undefined.
AllZero(v) == \A i \in DOMAIN v : v[i] = Fin(0)
C15_DropEverythingIsZero ==
    (layers # <<>> /\ layers[1].kind = "Dropout" /\ layers[1].drop_rate = 100) =>
        /\ pc # "panic"
        /\ DropDone({"trained", "backwarded"}) => AllZero(vals.y)
        /\ DropDone({"backwarded"}) => AllZero(vals.dx)

(***************************************************************************)
(* A network with one of the four optimizers, built from layers with and   *)
(* without parameters and fitted: the state of the optimizer's slots.      *)
(***************************************************************************)
OptLayers == {DenseNew(1, "Tanh"), DenseNew(2, "Tanh"), FlattenNew}

OptStart ==
    /\ overflow_checks \in BOOLEAN
    /\ net_input = <<2, 1, 1, 1>>
    /\ opt \in {OptimizerNew(kind) : kind \in OptimizerKinds}
    /\ Idle

OptNext ==
    \/ \E layer \in OptLayers : Add(layer)
    \/ \E x_train \in 1..MaxSamples, valid \in {None, Some(1)} :
          LoadTensors(x_train, x_train, valid)
    \/ \E epochs \in 1..MaxEpochs, batch_size \in 1..MaxSamples :
          FitBegin(epochs, batch_size)
    \/ EpochBegin
    \/ NextBatch
    \/ ForwardTrain
    \/ LossForward
    \/ LossBackward
    \/ Backward
    \/ Update
    \/ Validate

SpecOpt == OptStart /\ [][OptNext]_vars

\* The parameters of the network: layer and tensor name.
Parameters ==
    UNION {{<<li, ParameterNames(layers[li])[k]>> : k \in DOMAIN ParameterNames(layers[li])} :
              li \in 1..NumLayers}
SlotIds == 1..Len(opt.slots)
\* The mini-batches whose updates are complete.
CompletedSteps ==
    IF pc \in {"forward", "loss_forward", "loss_backward", "backward"} THEN fit.step - 1
    ELSE fit.step
\* The mini-batch of the last update of slot i, 0 before its first update.
LastUpdate(i) ==
    IF pc = "update"
    THEN IF opt.slots[i].owner[1] < fit.li THEN fit.step ELSE fit.step - 1
    ELSE CompletedSteps

\* C16: a slot is assigned once per trainable tensor and never changes:
\* every parameter has exactly one slot, no two parameters have the same
\* one, an accumulator holds updates of its own parameter only, one per
\* mini-batch, and the update of a layer's parameters leaves the tensors and
\* the accumulators of every other layer as they were.
SlotsAreDistinct ==
    /\ \A i, j \in SlotIds : opt.slots[i].owner = opt.slots[j].owner => i = j
    /\ {opt.slots[i].owner : i \in SlotIds} = Parameters
    /\ \A i \in SlotIds :
          IsSome(opt.slots[i].state) =>
              /\ Get(opt.slots[i].state).by = {opt.slots[i].owner}
              /\ Get(opt.slots[i].state).n = Get(opt.slots[i].state).last
    /\ \A k \in DOMAIN opt.uses : opt.slots[opt.uses[k].slot].owner = opt.uses[k].owner
    /\ \A k, m \in DOMAIN opt.uses : opt.uses[k].slot = opt.uses[m].slot => k = m
UpdateTouchesOneLayer ==
    (pc = "update" /\ fit.li <= NumLayers) =>
        /\ \A j \in 1..NumLayers : j # fit.li => layers'[j] = layers[j]
        /\ \A i \in SlotIds :
              /\ opt'.slots[i].owner = opt.slots[i].owner
              /\ opt.slots[i].owner[1] # fit.li => opt'.slots[i] = opt.slots[i]
C16_SlotsNeverShared == []SlotsAreDistinct /\ [][UpdateTouchesOneLayer]_vars
C16_Witness ==
    /\ pc = "update"
    /\ fit.li = 3
    /\ fit.step = 2
    /\ NumLayers = 2
    /\ layers[1].weights.dims = layers[2].weights.dims
    /\ Len(opt.uses) = 4
    /\ Get(opt.slots[1].state).by = {<<1, "weights">>}
    /\ Get(opt.slots[3].state).by = {<<2, "weights">>}

\* C17: the state of a slot is created by the first update of the slot and
\* is then carried from each mini-batch to the next, across the end of an
\* epoch and the validation pass: the update of mini-batch k + 1 reads what
\* the update of mini-batch k wrote.
C17_StatePersists ==
    /\ \A k \in DOMAIN opt.uses :
          IF opt.uses[k].step = 1
          THEN opt.uses[k].read = None
          ELSE /\ IsSome(opt.uses[k].read)
               /\ Get(opt.uses[k].read).last = opt.uses[k].step - 1
               /\ Get(opt.uses[k].read).n = opt.uses[k].step - 1
    /\ pc # "panic" =>
          \A i \in SlotIds :
              IF LastUpdate(i) = 0
              THEN opt.slots[i].state = None
              ELSE /\ IsSome(opt.slots[i].state)
                   /\ Get(opt.slots[i].state).last = LastUpdate(i)
                   /\ Get(opt.slots[i].state).n = LastUpdate(i)
C17_Witness ==
    /\ pc = "update"
    /\ fit.epoch = 2
    /\ IsSome(data.x_valid)
    /\ Len(yielded) = 1
    /\ Len(opt.uses) > 0
    /\ \A k \in DOMAIN opt.uses : opt.uses[k].step = 2 /\ IsSome(opt.uses[k].read)

\* C18: Adam's t advances once per mini-batch: after k mini-batches t = k,
\* and every parameter updated in mini-batch k is corrected with t = k.
C18_AdamStepCounter ==
    opt.kind = "Adam" =>
        /\ \A k \in DOMAIN opt.uses : opt.uses[k].t = opt.uses[k].step
        /\ opt.t = IF pc = "update" /\ fit.li = 1 THEN fit.step - 1 ELSE CompletedSteps
C18_Witness ==
    /\ opt.kind = "Adam"
    /\ pc = "batch"
    /\ fit.step = 2
    /\ opt.t = 2
    /\ Len(opt.uses) = 4
    /\ \A k \in DOMAIN opt.uses : opt.uses[k].t = 2

(***************************************************************************)
(* The update rules of the four optimizers on one scalar parameter.        *)
(* Values, gradients and first-order accumulators are fixed-point numbers  *)
(* in units of 1/MathScale; squared accumulators are in units of           *)
(* 1/MathScale^2, so that a square is an exact product and its root is     *)
(* again in units of 1/MathScale.  Hyperparameters are fractions <<n, d>>. *)
(* Division and root truncate towards zero.                                *)
(***************************************************************************)
MathScale == 1000
MaxUpdates == 3

TruncDiv(a, b) == IF a >= 0 THEN a \div b ELSE 0 - ((0 - a) \div b)
Times(r, a) == TruncDiv(r[1] * a, r[2])
Complement(r) == <<r[2] - r[1], r[2]>>
RECURSIVE SqrtBetween(_, _, _)
SqrtBetween(n, lo, hi) ==
    IF hi - lo <= 1 THEN lo
    ELSE LET mid == (lo + hi) \div 2
         IN  IF mid * mid <= n THEN SqrtBetween(n, mid, hi) ELSE SqrtBetween(n, lo, mid)
ISqrt(n) == SqrtBetween(n, 0, Min2(n + 1, 46341))
\* beta^t in parts per million.
RECURSIVE PowerPpm(_, _)
PowerPpm(r, t) == IF t = 0 THEN 1000000 ELSE Times(r, PowerPpm(r, t - 1))

\* An SGD step that adds the gradient term instead of subtracting it.
SGDUpdateAscent(value, g, st, hp) ==
    LET v == Times(hp.momentum, st.v) + Times(hp.lr, g)
    IN  [value |-> value + v, state |-> [st EXCEPT !.v = v]]
\* SGD(lr, momentum): v <- momentum v - lr g; value += v.
SGDUpdate(value, g, st, hp) ==
    LET v == Times(hp.momentum, st.v) - Times(hp.lr, g)
    IN  [value |-> value + v, state |-> [st EXCEPT !.v = v]]

\* RMSProp(lr, decay = 0.9): c <- decay c + (1 - decay) g^2;
\* value -= lr g / sqrt(c + eps).  eps = 1e-8 is below the resolution.
RMSPropDecay == <<9, 10>>
RMSPropUpdate(value, g, st, hp) ==
    LET c == Times(RMSPropDecay, st.c) + Times(Complement(RMSPropDecay), g * g)
    IN  [value |-> value - TruncDiv(Times(hp.lr, g) * MathScale, ISqrt(c)),
         state |-> [st EXCEPT !.c = c]]

\* Adam(lr, beta1 = 0.9, beta2 = 0.999): m <- beta1 m + (1 - beta1) g;
\* v <- beta2 v + (1 - beta2) g^2; mhat = m / (1 - beta1^t);
\* vhat = v / (1 - beta2^t); value -= lr mhat / (sqrt(vhat) + eps), with t
\* the step counter after this mini-batch's increment.  eps = 1e-8 is below
\* the resolution.
AdamBeta1 == <<9, 10>>
AdamBeta2 == <<999, 1000>>
AdamUpdate(value, g, st, hp, t) ==
    LET m == Times(AdamBeta1, st.m) + Times(Complement(AdamBeta1), g)
        v == Times(AdamBeta2, st.v) + Times(Complement(AdamBeta2), g * g)
        mhat == TruncDiv(m * 1000000, 1000000 - PowerPpm(AdamBeta1, t))
        vhat == TruncDiv(v * 1000000, 1000000 - PowerPpm(AdamBeta2, t))
    IN  [value |-> value - TruncDiv(Times(hp.lr, mhat) * MathScale, ISqrt(vhat)),
         state |-> [st EXCEPT !.m = m, !.v = v]]

\* AdaDelta(rho = 0.95, eps = 1e-6): E[g^2] <- rho E[g^2] + (1 - rho) g^2;
\* delta = - sqrt(E[d^2] + eps) / sqrt(E[g^2] + eps) g; value += delta;
\* E[d^2] <- rho E[d^2] + (1 - rho) delta^2.  eps is one unit of
\* 1/MathScale^2.
AdaDeltaRho == <<19, 20>>
AdaDeltaEps == 1
AdaDeltaUpdate(value, g, st, hp) ==
    LET Eg2 == Times(AdaDeltaRho, st.Eg2) + Times(Complement(AdaDeltaRho), g * g)
        delta == 0 - TruncDiv(ISqrt(st.Edx2 + AdaDeltaEps) * g, ISqrt(Eg2 + AdaDeltaEps))
        Edx2 == Times(AdaDeltaRho, st.Edx2) + Times(Complement(AdaDeltaRho), delta * delta)
    IN  [value |-> value + delta, state |-> [st EXCEPT !.Eg2 = Eg2, !.Edx2 = Edx2]]

\* The accumulators of a slot before its first update: all zero.
ZeroState(kind) == [a \in Accumulators(kind) |-> 0]

LearningRates == {<<1, 10>>, <<1, 2>>}
Momenta == {<<0, 1>>, <<1, 2>>, <<9, 10>>}
Gradients == {0 - 500, 0 - 100, 100, 500}
StartValues == {0 - 1000, 0, 250}
Hyperparameters(kind) ==
    [lr : IF kind = "AdaDelta" THEN {<<1, 1>>} ELSE LearningRates,
     momentum : IF kind = "SGD" THEN Momenta ELSE {<<0, 1>>}]

MathStart ==
    /\ overflow_checks = TRUE
    /\ net_input = UnresolvedDim
    /\ opt \in {OptimizerNew(kind) : kind \in OptimizerKinds}
    /\ Idle
\* One parameter with its first value, the constant gradient of the run and
\* the optimizer's hyperparameters; no state before the first update.
MathBegin(value, g, hp) ==
    /\ pc = "build"
    /\ vals' = [value |-> value, gradient |-> g, hp |-> hp, state |-> None,
                hist |-> <<value>>]
    /\ pc' = "ready"
    /\ UNCHANGED <<overflow_checks, opt, saved, net_input, layers, data, why, fit, act, it,
                   yielded, iter_args, log>>

\* One update with the optimizer's rule: the state is created if the slot
\* has none, the new value and state replace the old ones.
StateOrZero == IF IsSome(vals.state) THEN Get(vals.state) ELSE ZeroState(opt.kind)
Applied(r) ==
    /\ pc = "ready"
    /\ Len(vals.hist) <= MaxUpdates
    /\ vals' = [vals EXCEPT !.value = r.value, !.state = Some(r.state),
                            !.hist = Append(@, r.value)]
    /\ opt' = UpdateTimeStep(opt, TRUE)
    /\ UNCHANGED <<overflow_checks, saved, net_input, layers, data, pc, why, fit, act, it,
                   yielded, iter_args, log>>
UpdateSGD ==
    /\ opt.kind = "SGD"
    /\ pc = "ready"
    /\ Applied(SGDUpdate(vals.value, vals.gradient, StateOrZero, vals.hp))
UpdateRMSProp ==
    /\ opt.kind = "RMSProp"
    /\ pc = "ready"
    /\ Applied(RMSPropUpdate(vals.value, vals.gradient, StateOrZero, vals.hp))
UpdateAdam ==
    /\ opt.kind = "Adam"
    /\ pc = "ready"
    /\ Applied(AdamUpdate(vals.value, vals.gradient, StateOrZero, vals.hp,
                          UpdateTimeStep(opt, TRUE).t))
UpdateAdaDelta ==
    /\ opt.kind = "AdaDelta"
    /\ pc = "ready"
    /\ Applied(AdaDeltaUpdate(vals.value, vals.gradient, StateOrZero, vals.hp))

MathNext ==
    \/ \E value \in StartValues, g \in Gradients, hp \in Hyperparameters(opt.kind) :
          MathBegin(value, g, hp)
    \/ UpdateSGD
    \/ UpdateRMSProp
    \/ UpdateAdam
    \/ UpdateAdaDelta

SpecMath == MathStart /\ [][MathNext]_vars

\* C19: from fresh state, under a constant nonzero gradient g, every update
\* of SGD, RMSProp, Adam and AdaDelta moves the parameter against the sign
\* of g: the values are strictly decreasing when g > 0 and strictly
\* increasing when g < 0.
C19_MonotonicUnderConstantGradient ==
    (pc = "ready" /\ vals # NoVals) =>
        \A i \in 1..(Len(vals.hist) - 1) :
            IF vals.gradient > 0
            THEN vals.hist[i + 1] < vals.hist[i]
            ELSE vals.hist[i + 1] > vals.hist[i]
C19_UpdatesDone(kind) ==
    /\ pc = "ready"
    /\ vals # NoVals
    /\ opt.kind = kind
    /\ Len(vals.hist) = MaxUpdates + 1
C19_Witness ==
    /\ C19_UpdatesDone("SGD")
    /\ vals.gradient = 100
    /\ vals.hp.momentum = <<9, 10>>
    /\ vals.hist[4] < vals.hist[3]
C19_WitnessAdam == C19_UpdatesDone("Adam") /\ vals.gradient < 0 /\ opt.t = MaxUpdates
C19_WitnessRMSProp == C19_UpdatesDone("RMSProp") /\ vals.gradient < 0
C19_WitnessAdaDelta == C19_UpdatesDone("AdaDelta") /\ vals.gradient > 0

\* C20: the inference forward is stateless: a forward call leaves the layer
\* as it was (cache, parameters, parameter gradients), so the backward
\* after forward_train(x1) and forward(x2) computes from x1.  Every call's
\* input is numbered by its place in the sequence of calls.
ForwardCalled ==
    /\ Len(log') = Len(log) + 1
    /\ log'[Len(log')].op = "forward"
ForwardLeavesTheLayer == ForwardCalled => layers' = layers
LastForwardTrain ==
    LET done == {i \in 1..Len(log) : log[i].op = "forward_train" /\ log[i].ok}
    IN  IF done = {} THEN 0 ELSE CHOOSE i \in done : \A j \in done : j <= i
BackwardCalled ==
    /\ Len(log') = Len(log) + 1
    /\ log'[Len(log')].op = "backward"
    /\ log'[Len(log')].ok
    /\ log'[Len(log')].trained
BackwardUsesTheTrainingCache ==
    BackwardCalled =>
        /\ CacheSources(layers'[1]) \subseteq {LastForwardTrain}
        /\ HasParameters(layers'[1]) =>
              /\ layers'[1].dweights.src = LastForwardTrain
              /\ layers'[1].dbiases.src = LastForwardTrain
C20_InferenceForwardIsStateless ==
    [][ForwardLeavesTheLayer /\ BackwardUsesTheTrainingCache]_vars
C20_Witness ==
    /\ pc = "ready"
    /\ layers[1].kind = "Dense"
    /\ Len(log) = 3
    /\ log[1].op = "forward_train" /\ log[1].ok
    /\ log[2].op = "forward" /\ log[2].ok
    /\ log[3].op = "backward" /\ log[3].ok
    /\ layers[1].dweights.src = 1
    /\ Get(layers[1].previous_input).src = 1
\* The validation pass of fit leaves the layers and the optimizer as the
\* last update left them.
ValidationLeavesTheLayers == [][pc = "validate" => (layers' = layers /\ opt' = opt)]_vars

(***************************************************************************)
(* A program that makes one Dense layer with any activation and            *)
(* initializers, may set a regularizer, initialises the layer and then     *)
(* calls forward_train, forward, backward, save and load on it.            *)
(***************************************************************************)
DenseInitializers ==
    {Initializer("Constant", <<2>>), Initializer("HeNormal", <<>>),
     Initializer("NormalScaled", <<0, 1>>)}
DenseActivations == {"Linear", "ReLU", "Tanh"}
Regularizers == {None, Some([kind |-> "L1", lambda |-> 1]), Some([kind |-> "L2", lambda |-> 2])}

DenseStart ==
    /\ overflow_checks \in BOOLEAN
    /\ net_input \in {<<2, 1, 1, 1>>, <<1, 2, 1, 1>>}
    /\ opt = NoOptimizer
    /\ Idle

\* set_regularizer, called on the layer before it is initialised
SetRegularizer(regularizer) ==
    /\ pc = "made"
    /\ layers[1].regularizer # regularizer
    /\ layers' = <<[layers[1] EXCEPT !.regularizer = regularizer]>>
    /\ UNCHANGED <<overflow_checks, vals, opt, saved, net_input, data, pc, why, fit, act, it,
                   yielded, iter_args, log>>

DenseNext ==
    \/ \E units \in 1..2, activation \in DenseActivations,
          weights_initializer \in DenseInitializers,
          biases_initializer \in {Initializer("Zeros", <<>>), Initializer("Constant", <<2>>)} :
          LayerNew(DenseWithParam(units, activation, weights_initializer,
                                  biases_initializer))
    \/ \E regularizer \in Regularizers : SetRegularizer(regularizer)
    \/ LayerInitialize
    \/ \E batch \in 1..MaxSamples : LayerForwardTrain(batch)
    \/ \E batch \in 1..MaxSamples : LayerForward(batch)
    \/ \E batch \in 1..MaxSamples : LayerBackward(batch)
    \/ LayerSave
    \/ LayerLoad

SpecDense == DenseStart /\ [][DenseNext]_vars

\* The step that replaces the layer by the one rebuilt from the saved group.
Reloaded ==
    /\ pc = "ready" /\ pc' = "ready"
    /\ IsSome(saved)
    /\ log' = log
    /\ layers' # layers
\* The inputs a forward is tried on.
ForwardInputs ==
    {Tensor(<<net_input[1], net_input[2], net_input[3], batch>>, 1, <<"x", 0>>) :
        batch \in 1..MaxSamples}
ForwardOutput(l, x) == [ok |-> ComputeActivation(l, x).ok, out |-> ComputeActivation(l, x).out]

\* C21: a Dense layer rebuilt from its saved group has the units,
\* activation, weights, biases, input_shape, output_shape and initializers
\* of the saved layer, and its forward gives the same output on every input.
SameDense(a, b) ==
    /\ b.kind = a.kind
    /\ b.units = a.units
    /\ b.activation = a.activation
    /\ b.weights = a.weights
    /\ b.biases = a.biases
    /\ b.input_shape = a.input_shape
    /\ b.output_shape = a.output_shape
    /\ b.weights_initializer = a.weights_initializer
    /\ b.biases_initializer = a.biases_initializer
C21_DenseRoundTrip ==
    [][Reloaded =>
          /\ SameDense(layers[1], layers'[1])
          /\ \A x \in ForwardInputs :
                ForwardOutput(layers'[1], x) = ForwardOutput(layers[1], x)]_vars
C21_Witness ==
    /\ pc = "ready"
    /\ layers[1].loaded
    /\ layers[1].activation = "ReLU"
    /\ layers[1].weights_initializer = Initializer("NormalScaled", <<0, 1>>)
    /\ layers[1].biases_initializer = Initializer("Constant", <<2>>)
    /\ layers[1].weights.dims = <<2, 2, 1, 1>>
    /\ ForwardOutput(layers[1], Tensor(<<net_input[1], net_input[2], net_input[3], 2>>, 1,
                                       <<"x", 0>>)).ok

\* C28: save writes what from_hdf5_group reads back, so a Dense layer
\* with a regularizer has the same regularizer after save and load, and its
\* backward (after a forward_train) stores the same weight gradient as the
\* original layer's.
WeightGradient(l, x) ==
    LET trained == DenseComputeActivationMut(l, x).layer
        g == Tensor(<<l.output_shape[1], l.output_shape[2], l.output_shape[3], x.dims[4]>>,
                    1, <<"dloss", 0>>)
    IN  DenseComputeDactivationMut(trained, g).layer.dweights
C28_SaveWritesWhatLoadReads ==
    [][Reloaded =>
          /\ layers'[1].regularizer = layers[1].regularizer
          /\ \A x \in ForwardInputs :
                WeightGradient(layers'[1], x) = WeightGradient(layers[1], x)]_vars

\* C29: on a Dense layer forward_train(x) returns exactly what forward(x)
\* returns on the same layer, and changes nothing of the layer but the saved
\* input and the saved linear activation.
ForwardTrainCalled ==
    /\ Len(log') = Len(log) + 1
    /\ log'[Len(log')].op = "forward_train"
    /\ log'[Len(log')].ok
ForwardTrainIsForward ==
    ForwardTrainCalled =>
        LET x == Get(layers'[1].previous_input)
        IN  /\ act' = ComputeActivation(layers[1], x).out
            /\ layers'[1] = [layers[1] EXCEPT
                                !.previous_input = Some(x),
                                !.linear_activation = layers'[1].linear_activation,
                                !.trained = TRUE]
            /\ IsSome(layers'[1].linear_activation)
C29_ForwardTrainMatchesForward == [][ForwardTrainIsForward]_vars
C29_Witness ==
    /\ pc = "ready"
    /\ Len(log) >= 2
    /\ log[Len(log)].op = "forward_train" /\ log[Len(log)].ok
    /\ log[Len(log) - 1].op = "forward_train" /\ log[Len(log) - 1].ok
    /\ layers[1].activation = "ReLU"
    /\ IsSome(layers[1].regularizer)
    /\ act = ActivationEval("ReLU", Get(layers[1].linear_activation))
    /\ act.dims = <<2, 1, 1, 2>>

\* C25: Dense backward after a forward_train on x multiplies the upstream
\* gradient with the activation's gradient at the cached linear activation,
\* stores dW (the batch mean of dZ.x^T, plus the regularizer's gradient of W
\* when a regularizer is set) with the shape of W and db (the batch mean of
\* dZ) with the shape of b, returns dX = W^T.dZ of shape [fan_in, batch], and
\* leaves W and b as they were.
DenseBackwardCalled ==
    /\ BackwardCalled
    /\ layers[1].kind = "Dense"
    /\ IsSome(layers[1].previous_input)
    /\ act'.dims[4] = Get(layers[1].previous_input).dims[4]
DenseBackwardFormulas ==
    DenseBackwardCalled =>
        LET l == layers[1]
            after == layers'[1]
            x == Get(l.previous_input)
            z == Get(l.linear_activation)
        IN  /\ after.dweights.dims = l.weights.dims
            /\ after.dweights.dims = <<l.units, x.dims[1], 1, 1>>
            /\ after.dweights.src = x.src
            /\ after.dweights.by = IF IsSome(l.regularizer)
                                   THEN DWeightsBy(l.regularizer) ELSE <<"dweights", 0>>
            /\ IsSome(l.regularizer) => after.dweights.by # <<"dweights", 0>>
            /\ after.dbiases.dims = l.biases.dims
            /\ after.dbiases.dims = <<l.units, 1, 1, 1>>
            /\ after.dbiases.src = z.src
            /\ z.src = x.src
            /\ act'.dims = <<l.weights.dims[2], 1, 1, x.dims[4]>>
            /\ after.weights = l.weights
            /\ after.biases = l.biases
            /\ after = [l EXCEPT !.dweights = after.dweights, !.dbiases = after.dbiases]
C25_DenseBackward == [][DenseBackwardFormulas]_vars
C25_Witness ==
    /\ pc = "ready"
    /\ Len(log) >= 2
    /\ log[Len(log)].op = "backward" /\ log[Len(log)].ok
    /\ log[Len(log) - 1].op = "forward_train" /\ log[Len(log) - 1].ok
    /\ layers[1].kind = "Dense"
    /\ IsSome(layers[1].regularizer)
    /\ layers[1].dweights.dims = <<2, 2, 1, 1>>
    /\ layers[1].dweights.by = <<"dweights+L2.grad", 2>>
    /\ layers[1].dbiases.dims = <<2, 1, 1, 1>>
    /\ act.dims = <<2, 1, 1, 2>>

(***************************************************************************)
(* A program that rebuilds one Dropout layer from a persisted group, whose *)
(* stored drop_rate is whatever the file holds, and runs forward,          *)
(* forward_train and backward on it.                                       *)
(***************************************************************************)
StoredDropRates == {0 - 100, 0, 50, 100, 101, 200}
StoredDropout(drop_rate) ==
    Group("Dropout", DropoutDatasets,
          [BlankLayer EXCEPT !.kind = "Dropout", !.drop_rate = drop_rate,
                             !.output_shape = net_input])

DropLoad(drop_rate) ==
    /\ pc = "build"
    /\ saved' = Some(StoredDropout(drop_rate))
    /\ LET r == DropoutFromHdf5Group(StoredDropout(drop_rate))
       IN  IF r.ok
           THEN /\ layers' = <<[r.layer EXCEPT !.loaded = TRUE]>>
                /\ vals' = DropVals
                /\ pc' = "ready"
                /\ UNCHANGED why
           ELSE /\ Fail("from_hdf5_group")
                /\ UNCHANGED <<layers, vals>>
    /\ UNCHANGED <<overflow_checks, opt, net_input, data, fit, act, it, yielded, iter_args,
                   log>>

DropLoadNext ==
    \/ \E drop_rate \in StoredDropRates : DropLoad(drop_rate)
    \/ \E x \in DropElements : DropForward(x)
    \/ \E x \in DropElements, randoms \in DropRandoms : DropForwardTrain(x, randoms)
    \/ \E g \in DropElements : DropBackward(g)

SpecDropLoad == DropStart /\ [][DropLoadNext]_vars

\* C26: every Dropout layer that exists has its drop_rate in [0, 1], also
\* when it was rebuilt from a persisted group: a stored drop_rate outside
\* [0, 1] gives no layer that forward_train or backward can run on.
C26_LoadedDropRateInRange ==
    (layers # <<>> /\ layers[1].kind = "Dropout") => DropRateValid(layers[1].drop_rate)

(***************************************************************************)
(* Saving a network and loading it back (src/src/io.rs and the save of     *)
(* each layer).  A group holds links to its subgroups; a link has the      *)
(* subgroup's name, its place in the order of creation and the subgroup.   *)
(* A name is the text before the layer's name, as character codes, and the *)
(* layer's name.                                                           *)
(***************************************************************************)
MaxSaved == 11
Underscore == 95
DigitZero == 48
RECURSIVE UsizeToString(_)
UsizeToString(n) ==
    IF n < 10 THEN <<DigitZero + n>> ELSE Append(UsizeToString(n \div 10), DigitZero + (n % 10))
\* layer_number.to_string() + "_" + NAME
GroupName(layer_number, name) ==
    [text |-> Append(UsizeToString(layer_number), Underscore), name |-> name]
RECURSIVE LexLess(_, _)
LexLess(a, b) ==
    IF a = <<>> THEN b # <<>>
    ELSE IF b = <<>> THEN FALSE
    ELSE IF Head(a) = Head(b) THEN LexLess(Tail(a), Tail(b))
    ELSE Head(a) < Head(b)

\* create_group of io.rs: an empty group that tracks and indexes the order
\* in which its links are created.
CreateGroup == [tracked |-> TRUE, links |-> {}]
\* group.create_group(name): fails when the group has a link of that name.
CreateSubgroup(group, name, sub) ==
    IF \E a \in group.links : a.name = name
    THEN [ok |-> FALSE, group |-> group]
    ELSE [ok |-> TRUE,
          group |-> [group EXCEPT !.links = @ \cup {[name |-> name,
                                                     crt |-> Cardinality(group.links),
                                                     group |-> sub]}]]
\* A listing by the name index: the lexicographic order of the names.
RECURSIVE ListByName(_)
ListByName(links) ==
    IF links = {} THEN <<>>
    ELSE LET first == CHOOSE a \in links :
                          \A b \in links \ {a} : LexLess(a.name.text, b.name.text)
         IN  <<first.name>> \o ListByName(links \ {first})
ListSubgroupsByName(group) == ListByName(group.links)
\* list_subgroups: the names of the subgroups, listed by creation order.
RECURSIVE ListByCreation(_)
ListByCreation(links) ==
    IF links = {} THEN <<>>
    ELSE LET first == CHOOSE a \in links : \A b \in links : a.crt <= b.crt
         IN  <<first.name>> \o ListByCreation(links \ {first})
ListSubgroups(group) == ListByCreation(group.links)

\* Network::save: every layer saves itself, in order, under the group of
\* the layers, with its index as layer_number (from 0).
RECURSIVE SaveLayers(_, _, _)
SaveLayers(group, ls, i) ==
    IF i > Len(ls) THEN [ok |-> TRUE, group |-> group]
    ELSE LET r == CreateSubgroup(group, GroupName(i - 1, ls[i].kind), Save(ls[i]))
         IN  IF r.ok THEN SaveLayers(r.group, ls, i + 1) ELSE r
\* Network::load: one layer per listed subgroup, in the order listed, made
\* by the from_hdf5_group of the layer named in the subgroup's name.
Subgroup(group, name) == (CHOOSE a \in group.links : a.name = name).group
LoadLayers(group) ==
    LET names == ListSubgroups(group)
    IN  [i \in 1..Len(names) |->
            [name |-> names[i], layer |-> FromHdf5Group(Subgroup(group, names[i])).layer]]

IoLayers == {DenseNew(1, "Tanh"), FlattenNew}
IoStart ==
    /\ overflow_checks \in BOOLEAN
    /\ net_input = <<2, 1, 1, 1>>
    /\ opt = NoOptimizer
    /\ Idle

IoAdd(layer) ==
    /\ pc = "build"
    /\ Len(layers) < MaxSaved
    /\ layers' = Append(layers, InitializeParameters(layer, net_input, overflow_checks).layer)
    /\ UNCHANGED <<overflow_checks, vals, opt, saved, net_input, data, pc, why, fit, act, it,
                   yielded, iter_args, log>>

IoSave ==
    /\ pc = "build"
    /\ layers # <<>>
    /\ LET r == SaveLayers(CreateGroup, layers, 1)
       IN  IF r.ok
           THEN /\ saved' = Some(r.group)
                /\ pc' = "saved"
                /\ UNCHANGED why
           ELSE /\ Fail("save")
                /\ UNCHANGED saved
    /\ UNCHANGED <<overflow_checks, vals, opt, net_input, layers, data, fit, act, it, yielded,
                   iter_args, log>>

IoLoad ==
    /\ pc = "saved"
    /\ log' = LoadLayers(Get(saved))
    /\ pc' = "loaded"
    /\ UNCHANGED <<overflow_checks, vals, opt, saved, net_input, layers, data, why, fit, act,
                   it, yielded, iter_args>>

IoNext ==
    \/ \E layer \in IoLayers : IoAdd(layer)
    \/ IoSave
    \/ IoLoad

SpecIo == IoStart /\ [][IoNext]_vars

\* C22: every layer of a network is saved under a name of its own (its
\* index, "_", its name), and load lists the groups in creation order, so
\* the network is rebuilt with its layers in the original order, also when
\* it has more than 10 layers and "10_Dense" sorts before "2_Dense".
C22_LayersReloadInOrder ==
    /\ pc # "panic"
    /\ pc \in {"saved", "loaded"} =>
          /\ Cardinality(Get(saved).links) = Len(layers)
          /\ \A a, b \in Get(saved).links : a.name = b.name => a = b
    /\ pc = "loaded" =>
          /\ Len(log) = Len(layers)
          /\ \A i \in 1..Len(layers) :
                /\ log[i].name = GroupName(i - 1, layers[i].kind)
                /\ log[i].layer.kind = layers[i].kind
                /\ Save(log[i].layer) = Save(layers[i])
C22_Witness ==
    /\ pc = "loaded"
    /\ Len(layers) = 11
    /\ layers[3].kind = "Dense" /\ layers[11].kind = "Dense" /\ layers[2].kind = "Flatten"
    /\ log[11].name = GroupName(10, "Dense")
    /\ ListSubgroupsByName(Get(saved))[2] = GroupName(10, "Dense")

(***************************************************************************)
(* A program that makes one TabularDataSet, from csv files or from         *)
(* tensors, each optional tensor given or not on its own.                  *)
(***************************************************************************)
MaxRows == 4
DataValidFracs == {<<0, 1>>, <<1, 4>>, <<1, 2>>, <<2, 3>>, <<1, 1>>}
DataStart ==
    /\ overflow_checks \in BOOLEAN
    /\ net_input = <<2, 1, 1, 1>>
    /\ opt = NoOptimizer
    /\ Idle

DataFromCsv(rows_in, rows_out, valid_frac, empty_ok) ==
    /\ pc = "build"
    /\ data = NoDataSet
    /\ log' = <<valid_frac>>
    /\ data' = [FromCsv(rows_in, rows_out, valid_frac[1], valid_frac[2], empty_ok)
                   EXCEPT !.made_by = <<"from_csv", rows_in, rows_out>>]
    /\ IF data'.why = "panic"
       THEN pc' = "panic" /\ why' = "from_csv"
       ELSE pc' = "made" /\ UNCHANGED why
    /\ UNCHANGED <<overflow_checks, vals, opt, saved, net_input, layers, fit, act, it, yielded,
                   iter_args>>

DataFromTensor(x_train, y_train, x_valid, y_valid) ==
    /\ pc = "build"
    /\ data = NoDataSet
    /\ data' = [FromTensor(x_train, y_train, x_valid, y_valid)
                   EXCEPT !.made_by = <<"from_tensor", x_train, y_train>>]
    /\ pc' = "made"
    /\ UNCHANGED <<overflow_checks, vals, opt, saved, net_input, layers, why, fit, act, it,
                   yielded, iter_args, log>>

DataNext ==
    \/ \E rows_in, rows_out \in 1..MaxRows, valid_frac \in DataValidFracs, empty_ok \in BOOLEAN :
          DataFromCsv(rows_in, rows_out, valid_frac, empty_ok)
    \/ \E x_train, y_train \in 1..MaxRows,
          x_valid, y_valid \in {None} \cup {Some(n) : n \in 1..MaxRows} :
          DataFromTensor(x_train, y_train, x_valid, y_valid)

SpecData == DataStart /\ [][DataNext]_vars

\* C27: in every TabularDataSet, made by from_csv or by from_tensor, the
\* validation inputs are present exactly when num_valid_samples > 0 and
\* exactly when the validation targets are present; from_csv gives
\* num_valid_samples = floor(valid_frac * rows) and num_train_samples +
\* num_valid_samples = rows, the training set being the first
\* num_train_samples shuffled rows and the validation set the others.
C27_ValidationSetConsistent ==
    data.ok =>
        /\ IsSome(data.x_valid) <=> data.num_valid_samples > 0
        /\ IsSome(data.x_valid) <=> IsSome(data.y_valid)
        /\ data.made_by[1] = "from_csv" =>
              /\ data.num_train_samples + data.num_valid_samples = data.made_by[2]
              /\ data.num_valid_samples = (log[1][1] * data.made_by[2]) \div log[1][2]
              /\ data.x_train = data.num_train_samples
              /\ data.y_train = data.num_train_samples

(***************************************************************************)
(* Normalisation of a TabularDataSet (src/src/data/tabular_data.rs).  The  *)
(* data set has one feature and one label; a tensor is the sequence of its *)
(* samples' values.  A quotient a / b of two numbers is kept as the pair   *)
(* <<a, b>>, so that nothing is rounded; b = 0 is a division by zero.      *)
(***************************************************************************)
Quotient(a, b) == <<a, b>>
MaxBatches(values) == CHOOSE m \in {values[i] : i \in DOMAIN values} :
                         \A i \in DOMAIN values : values[i] <= m
MinBatches(values) == CHOOSE m \in {values[i] : i \in DOMAIN values} :
                         \A i \in DOMAIN values : m <= values[i]
\* div(sub(values, max_values), sub(max_values, min_values))
NormalizeValues(values, max_values, min_values) ==
    [i \in DOMAIN values |-> Quotient(values[i] - max_values, max_values - min_values)]
\* select_io: the training, validation and test tensors of the inputs or
\* of the outputs.
SelectIo(ds, io) ==
    IF io = "Input" THEN <<ds.x_train, ds.x_valid, ds.x_test>>
    ELSE <<ds.y_train, ds.y_valid, ds.y_test>>
\* normalize: the three tensors after the call, and the statistics returned.
Normalize(ds, io) ==
    LET train_values == SelectIo(ds, io)[1]
        valid_values == SelectIo(ds, io)[2]
        test_values == SelectIo(ds, io)[3]
        max_values == MaxBatches(train_values)
        min_values == MinBatches(train_values)
        scaled(values) == NormalizeValues(values, max_values, min_values)
    IN  [train |-> scaled(train_values),
         valid |-> IF IsSome(valid_values) THEN Some(scaled(Get(valid_values))) ELSE None,
         test |-> IF IsSome(test_values) THEN Some(scaled(Get(test_values))) ELSE None,
         stats |-> <<"Normalized", min_values, max_values>>]

NormTrainSets == [1..2 -> {0, 1, 3}]
NormOtherSets == {None, Some(<<1>>), Some(<<5>>)}
NormStart ==
    /\ overflow_checks \in BOOLEAN
    /\ net_input = <<1, 1, 1, 1>>
    /\ opt = NoOptimizer
    /\ Idle

\* from_tensor on tensors of values; raw keeps the values given.
NormFromTensor(x_train, y_train, x_valid, y_valid, x_test, y_test) ==
    /\ pc = "build"
    /\ vals' = [x_train |-> x_train, y_train |-> y_train, x_valid |-> x_valid,
                y_valid |-> y_valid, x_test |-> x_test, y_test |-> y_test,
                x_train_stats |-> None, y_train_stats |-> None,
                raw |-> [Input |-> <<x_train, x_valid, x_test>>,
                         Output |-> <<y_train, y_valid, y_test>>]]
    /\ pc' = "made"
    /\ UNCHANGED <<overflow_checks, opt, saved, net_input, layers, data, why, fit, act, it,
                   yielded, iter_args, log>>

NormalizeInput ==
    /\ pc = "made"
    /\ vals.x_train_stats = None
    /\ LET r == Normalize(vals, "Input")
       IN  vals' = [vals EXCEPT !.x_train = r.train, !.x_valid = r.valid, !.x_test = r.test,
                                !.x_train_stats = Some(r.stats)]
    /\ UNCHANGED <<overflow_checks, opt, saved, net_input, layers, data, pc, why, fit, act, it,
                   yielded, iter_args, log>>

NormalizeOutput ==
    /\ pc = "made"
    /\ vals.y_train_stats = None
    /\ LET r == Normalize(vals, "Output")
       IN  vals' = [vals EXCEPT !.y_train = r.train, !.y_valid = r.valid, !.y_test = r.test,
                                !.y_train_stats = Some(r.stats)]
    /\ UNCHANGED <<overflow_checks, opt, saved, net_input, layers, data, pc, why, fit, act, it,
                   yielded, iter_args, log>>

NormNext ==
    \/ \E x_train \in NormTrainSets, y_train \in {<<0, 2>>, <<2, 2>>},
          x_valid \in NormOtherSets, y_valid \in {None, Some(<<4>>)},
          x_test \in NormOtherSets, y_test \in {None, Some(<<1>>)} :
          NormFromTensor(x_train, y_train, x_valid, y_valid, x_test, y_test)
    \/ NormalizeInput
    \/ NormalizeOutput

SpecNorm == NormStart /\ [][NormNext]_vars

\* C23: normalize_input and normalize_output rescale with the minimum and
\* maximum of the training values: every training value lies within 0 and 1,
\* the training minimum becomes 0 and the training maximum 1, and the
\* validation and test values are (v - min) / (max - min) with the training
\* minimum and maximum.
IsRescaled(q, v, lo, hi) == q[2] # 0 /\ q[1] * (hi - lo) = (v - lo) * q[2]
WithinUnit(q) == q[2] > 0 /\ 0 <= q[1] /\ q[1] <= q[2]
NormalizedRight(io, stats, train, valid, test) ==
    IsSome(stats) =>
        LET raw == vals.raw[io]
            lo == MinBatches(raw[1])
            hi == MaxBatches(raw[1])
        IN  lo < hi =>
              /\ Get(stats) = <<"Normalized", lo, hi>>
              /\ \A i \in DOMAIN train :
                    WithinUnit(train[i]) /\ IsRescaled(train[i], raw[1][i], lo, hi)
              /\ IsSome(valid) => \A i \in DOMAIN Get(valid) :
                    IsRescaled(Get(valid)[i], Get(raw[2])[i], lo, hi)
              /\ IsSome(test) => \A i \in DOMAIN Get(test) :
                    IsRescaled(Get(test)[i], Get(raw[3])[i], lo, hi)
C23_NormalizeToUnitRange ==
    pc = "made" =>
        /\ NormalizedRight("Input", vals.x_train_stats, vals.x_train, vals.x_valid, vals.x_test)
        /\ NormalizedRight("Output", vals.y_train_stats, vals.y_train, vals.y_valid, vals.y_test)

\* C24: every layer that Network.add has accepted has an output_shape whose
\* axes are all >= 1: a Conv2D with Valid padding and a kernel larger than
\* its input, or a MaxPool2D with a pool window larger than its input, is
\* rejected by add and never gets an output axis of 0 or a wrapped one.
PositiveShape(shape) == \A axis \in 1..3 : shape[axis] >= 1
C24_ResolvedShapesArePositive ==
    \A i \in 1..Len(layers) : PositiveShape(layers[i].output_shape)

====
